---- MODULE Spec2Model ----
(***************************************************************************)
(* LineBuffer of reedline (src/src/core_editor/line_buffer.rs): one        *)
(* String `lines` and one byte offset `insertion_point`.                   *)
(*                                                                         *)
(* A string is a sequence of characters (code points); every offset is a   *)
(* BYTE offset into the UTF-8 encoding, as in the source.  The alphabet    *)
(* has one character of each class the code distinguishes: letters of both *)
(* cases, a space, LF, CR, a 4-byte emoji (its own grapheme), and a 2-byte *)
(* combining mark (grapheme class Extend).                                 *)
(***************************************************************************)
EXTENDS Integers, Sequences, FiniteSets, TLC

VARIABLES
    lines,            \* LineBuffer.lines: the content
    insertion_point,  \* LineBuffer.insertion_point: byte offset of the cursor
    panicked,         \* a call panicked (slice off a char boundary / out of range)
    op,               \* name of the call that just returned, "none" between calls
    args,             \* its arguments
    pre_lines,        \* lines before the last operation
    pre_ip,           \* insertion_point before the last operation
    ret               \* its return value (0 for a unit function)

vars == <<lines, insertion_point, panicked, op, args, pre_lines, pre_ip, ret>>

---------------------------------------------------------------------------
(* Bounds *)

\* longest content (in characters) that insertion may build
MaxLen == 3
\* largest offset set_insertion_point is called with, beyond len()
MaxOver == 1

---------------------------------------------------------------------------
(* Characters *)

LF == "\n"
CR == "\r"
SPACE == " "
EMOJI == "U+1F607"
ACUTE == "U+0301"
\* LATIN SMALL LETTER DOTLESS I: two bytes, its uppercase is the one-byte "I"
DOTLESS == "U+0131"

Chars == {"a", "A", SPACE, LF, CR, EMOJI, ACUTE}

\* char::len_utf8
len_utf8(c) == CASE c = EMOJI -> 4 [] c = ACUTE -> 2 [] c = DOTLESS -> 2 [] OTHER -> 1

\* char::is_alphanumeric
is_alphanumeric(c) == c \in {"a", "A", "i", "I", DOTLESS}

\* char::is_whitespace
is_whitespace(c) == c \in {SPACE, LF, CR}

\* char::to_uppercase / char::to_lowercase
to_uppercase_char(c) ==
    CASE c = "a" -> "A" [] c = "i" -> "I" [] c = DOTLESS -> "I" [] OTHER -> c
to_lowercase_char(c) ==
    CASE c = "A" -> "a" [] c = "I" -> "i" [] OTHER -> c

\* Option<usize>::None
None == -1

---------------------------------------------------------------------------
(* Strings and byte offsets *)

RECURSIVE len(_)
\* str::len: length in bytes
len(s) == IF s = <<>> THEN 0 ELSE len_utf8(Head(s)) + len(Tail(s))

\* byte offset just past the first i characters of s
Off(s, i) == len(SubSeq(s, 1, i))

\* str::is_char_boundary
is_char_boundary(s, p) == \E i \in 0..Len(s) : Off(s, i) = p

\* number of characters before the char boundary p
Idx(s, p) == CHOOSE i \in 0..Len(s) : Off(s, i) = p

\* &s[a..b], for char boundaries a <= b
Slice(s, a, b) == SubSeq(s, Idx(s, a) + 1, Idx(s, b))

\* a range a..b that Rust can slice s with
SliceOk(s, a, b) == a <= b /\ is_char_boundary(s, a) /\ is_char_boundary(s, b)

\* str::find(char): byte offset of the first occurrence, or None
find(s, c) ==
    IF \E i \in 1..Len(s) : s[i] = c
    THEN Off(s, (CHOOSE i \in 1..Len(s) : s[i] = c /\ \A j \in 1..(i-1) : s[j] # c) - 1)
    ELSE None

\* str::rfind(char): byte offset of the last occurrence, or None
rfind(s, c) ==
    IF \E i \in 1..Len(s) : s[i] = c
    THEN Off(s, (CHOOSE i \in 1..Len(s) : s[i] = c /\ \A j \in (i+1)..Len(s) : s[j] # c) - 1)
    ELSE None

\* str::matches(c).count()
count_matches(s, c) == Cardinality({i \in 1..Len(s) : s[i] = c})

\* String::replace_range(a..b, t)
replace_range(s, a, b, t) == Slice(s, 0, a) \o t \o Slice(s, b, len(s))

\* str::to_uppercase / str::to_lowercase
to_uppercase(s) == [i \in 1..Len(s) |-> to_uppercase_char(s[i])]
to_lowercase(s) == [i \in 1..Len(s) |-> to_lowercase_char(s[i])]

---------------------------------------------------------------------------
(* Unicode segmentation (UAX #29), restricted to the alphabet *)

\* grapheme cluster boundary between s[i] and s[i+1]:
\* GB3 CR x LF, GB4/GB5 break around CR and LF, GB9 x Extend.
GBreak(s, i) ==
    /\ ~(s[i] = CR /\ s[i+1] = LF)
    /\ ~(s[i+1] = ACUTE /\ s[i] \notin {CR, LF})

RECURSIVE GI(_, _)
GI(s, i) ==
    IF i >= Len(s) THEN <<>>
    ELSE (IF i = 0 \/ GBreak(s, i) THEN <<Off(s, i)>> ELSE <<>>) \o GI(s, i + 1)

\* UnicodeSegmentation::grapheme_indices(true): start offsets of the graphemes
grapheme_indices(s) == GI(s, 0)

RECURSIVE EffBase(_, _)
\* WB4: the character that s[i] and the Extend characters before it count as
EffBase(s, i) ==
    IF s[i] # ACUTE \/ i = 1 THEN s[i]
    ELSE IF s[i-1] \in {CR, LF} THEN s[i]
    ELSE EffBase(s, i - 1)

\* word boundary between s[i] and s[i+1]:
\* WB3 CR x LF, WB3a/WB3b break around CR and LF, WB3d space x space,
\* WB4 x Extend, WB5 letter x letter, WB999 break.
WBreak(s, i) ==
    IF s[i] = CR /\ s[i+1] = LF THEN FALSE
    ELSE IF s[i] \in {CR, LF} \/ s[i+1] \in {CR, LF} THEN TRUE
    ELSE IF s[i] = SPACE /\ s[i+1] = SPACE THEN FALSE
    ELSE IF s[i+1] = ACUTE THEN FALSE
    ELSE ~(is_alphanumeric(EffBase(s, i)) /\ is_alphanumeric(s[i+1]))

RECURSIVE WI(_, _)
WI(s, i) ==
    IF i >= Len(s) THEN <<>>
    ELSE (IF i = 0 \/ WBreak(s, i) THEN <<Off(s, i)>> ELSE <<>>) \o WI(s, i + 1)

\* UnicodeSegmentation::split_word_bound_indices: <<start, end>> byte ranges
split_word_bound_indices(s) ==
    LET st == WI(s, 0)
    IN  [k \in 1..Len(st) |->
            <<st[k], IF k < Len(st) THEN st[k+1] ELSE len(s)>>]

\* is_word_boundary: no alphanumeric character in the segment
is_word_boundary(w) == ~ \E i \in 1..Len(w) : is_alphanumeric(w[i])

\* the segments of s that are words, in order
word_segments(s) ==
    SelectSeq(split_word_bound_indices(s),
              LAMBDA r : ~is_word_boundary(Slice(s, r[1], r[2])))

---------------------------------------------------------------------------
(* LineBuffer: queries.  l is `lines`, p is `insertion_point`; every query *)
(* that slices at p is only evaluated for a char boundary p (else the call *)
(* panics, see Panics).                                                    *)

\* is_valid: char boundary, and a grapheme start or the end of the buffer
\* (the content of a String is always valid UTF-8)
is_valid(l, p) ==
    /\ is_char_boundary(l, p)
    /\ \/ \E k \in 1..Len(grapheme_indices(l)) : grapheme_indices(l)[k] = p
       \/ p = len(l)

\* line: number of '\n' before the cursor
line(l, p) == count_matches(Slice(l, 0, p), LF)

\* num_lines counting as str::lines does: no line after a final LF
num_lines_as_str_lines(l) ==
    count_matches(l, LF) + (IF l = <<>> \/ l[Len(l)] = LF THEN 0 ELSE 1)

\* num_lines: lines.split('\n').count()
num_lines(l) == count_matches(l, LF) + 1

\* ends_with
ends_with(l, c) == l # <<>> /\ l[Len(l)] = c

\* is_empty
is_empty(l) == l = <<>>

\* find_current_line_end that takes no account of a CR before the LF
find_current_line_end_no_cr(l, p) ==
    LET i == find(Slice(l, p, len(l)), LF)
    IN  IF i = None THEN len(l) ELSE i + p

\* find_current_line_end that does not add the cursor to the index found
find_current_line_end_relative(l, p) ==
    LET i == find(Slice(l, p, len(l)), LF)
    IN  IF i = None THEN len(l)
        ELSE IF i > 0 /\ l[Idx(l, i)] = CR THEN i - 1 ELSE i

\* find_current_line_end
find_current_line_end(l, p) ==
    LET i == find(Slice(l, p, len(l)), LF)
        absolute_index == i + p
    IN  IF i = None THEN len(l)
        ELSE IF absolute_index > 0 /\ l[Idx(l, absolute_index)] = CR
             THEN absolute_index - 1
             ELSE absolute_index

\* grapheme_right_index stepping one code point instead of one grapheme
grapheme_right_index_code_point(l, p) ==
    IF p = len(l) THEN len(l) ELSE Off(l, Idx(l, p) + 1)

\* grapheme_right_index
grapheme_right_index(l, p) ==
    LET g == grapheme_indices(Slice(l, p, len(l)))
    IN  IF Len(g) >= 2 THEN p + g[2] ELSE len(l)

\* grapheme_left_index stepping one code point instead of one grapheme
grapheme_left_index_code_point(l, p) ==
    IF p = 0 THEN 0 ELSE Off(l, Idx(l, p) - 1)

\* grapheme_left_index
grapheme_left_index(l, p) ==
    LET g == grapheme_indices(Slice(l, 0, p))
    IN  IF Len(g) >= 1 THEN g[Len(g)] ELSE 0

\* word_right_index that stays at the cursor when no word is left
word_right_index_or_cursor(l, p) ==
    LET w == word_segments(Slice(l, p, len(l)))
    IN  IF Len(w) >= 1 THEN p + w[1][2] ELSE p

\* word_right_index
word_right_index(l, p) ==
    LET w == word_segments(Slice(l, p, len(l)))
    IN  IF Len(w) >= 1 THEN p + w[1][2] ELSE len(l)

\* word_left_index that also takes a word that starts at the cursor
word_left_index_inclusive(l, p) ==
    LET w == SelectSeq(word_segments(l), LAMBDA r : r[1] <= p)
    IN  IF Len(w) >= 1 THEN w[Len(w)][1] ELSE 0

\* word_left_index
word_left_index(l, p) ==
    LET w == word_segments(Slice(l, 0, p))
    IN  IF Len(w) >= 1 THEN w[Len(w)][1] ELSE 0

\* on_whitespace
on_whitespace(l, p) ==
    LET rest == Slice(l, p, len(l))
    IN  rest # <<>> /\ is_whitespace(rest[1])

\* current_word_range: <<start, end>>
current_word_range(l, p) ==
    LET right_index == word_right_index(l, p)
        w == word_segments(Slice(l, 0, right_index))
        left_index == IF Len(w) >= 1 THEN w[Len(w)][1] ELSE 0
    IN  <<left_index, right_index>>

\* current_line_range that ends before the LF instead of after it
current_line_range_before_lf(l, p) ==
    LET i == rfind(Slice(l, 0, p), LF)
        j == find(Slice(l, p, len(l)), LF)
    IN  <<IF i = None THEN 0 ELSE i + 1, IF j = None THEN len(l) ELSE j + p>>

\* current_line_range: <<start, end>>
current_line_range(l, p) ==
    LET i == rfind(Slice(l, 0, p), LF)
        j == find(Slice(l, p, len(l)), LF)
        left_index == IF i = None THEN 0 ELSE i + 1
        right_index == IF j = None THEN len(l) ELSE j + p + 1
    IN  <<left_index, right_index>>

\* word_count: lines.trim().split_whitespace().count()
word_count(l) ==
    Cardinality({i \in 1..Len(l) :
        ~is_whitespace(l[i]) /\ (i = 1 \/ is_whitespace(l[i-1]))})

\* is_cursor_at_first_line
is_cursor_at_first_line(l, p) == find(Slice(l, 0, p), LF) = None

\* is_cursor_at_last_line
is_cursor_at_last_line(l, p) == find(Slice(l, p, len(l)), LF) = None

\* a window of find_char_right that always runs to the end of the buffer
find_char_right_range_whole_buffer(l, p, current_line) ==
    <<grapheme_right_index(l, p), len(l)>>

\* the window find_char_right searches: <<start, end>>
find_char_right_range(l, p, current_line) ==
    LET char_offset == grapheme_right_index(l, p)
    IN  IF current_line THEN <<char_offset, current_line_range(l, p)[2]>>
        ELSE <<char_offset, len(l)>>

\* find_char_right
find_char_right(l, p, c, current_line) ==
    LET range == find_char_right_range(l, p, current_line)
        index == find(Slice(l, range[1], range[2]), c)
    IN  IF index = None THEN None ELSE index + range[1]

\* the window find_char_left searches: <<start, end>>
find_char_left_range(l, p, current_line) ==
    IF current_line THEN <<current_line_range(l, p)[1], p>> ELSE <<0, p>>

\* find_char_left
find_char_left(l, p, c, current_line) ==
    LET range == find_char_left_range(l, p, current_line)
        i == rfind(Slice(l, range[1], range[2]), c)
    IN  IF i = None THEN None ELSE i + range[1]

---------------------------------------------------------------------------
(* LineBuffer: operations, each as the buffer <<lines, insertion_point>> it *)
(* leaves, for a call that does not panic.                                 *)

Buf(l, p) == [l |-> l, p |-> p]

\* set_insertion_point
set_insertion_point(l, p, offset) == Buf(l, offset)

\* set_buffer that leaves the cursor where it was
set_buffer_keeping_cursor(l, p, buffer) == Buf(buffer, p)

\* set_buffer
set_buffer(l, p, buffer) == Buf(buffer, len(buffer))

\* move_to_start
move_to_start(l, p) == Buf(l, 0)

\* move_to_line_start
move_to_line_start(l, p) ==
    LET i == rfind(Slice(l, 0, p), LF)
    IN  Buf(l, IF i = None THEN 0 ELSE i + 1)

\* move_to_line_end
move_to_line_end(l, p) == Buf(l, find_current_line_end(l, p))

\* move_to_end
move_to_end(l, p) == Buf(l, len(l))

\* move_right
move_right(l, p) == Buf(l, grapheme_right_index(l, p))

\* move_left
move_left(l, p) == Buf(l, grapheme_left_index(l, p))

\* move_word_left
move_word_left(l, p) == Buf(l, word_left_index(l, p))

\* move_word_right
move_word_right(l, p) == Buf(l, word_right_index(l, p))

\* insert_char that advances the cursor by one byte
insert_char_one_byte(l, p, c) == Buf(replace_range(l, p, p, <<c>>), p + 1)

\* insert_char: String::insert, then move_right
insert_char(l, p, c) ==
    LET inserted == replace_range(l, p, p, <<c>>)
    IN  move_right(inserted, p)

\* insert_str that advances the cursor by the number of characters
insert_str_chars(l, p, string) ==
    Buf(replace_range(l, p, p, string), p + Len(string))

\* insert_str
insert_str(l, p, string) ==
    Buf(replace_range(l, p, p, string), p + len(string))

\* From<&str>: new, then insert_str
from_str(input) == insert_str(<<>>, 0, input)

\* clear
clear(l, p) == Buf(<<>>, 0)

\* clear_to_end: String::truncate has no effect beyond the end
clear_to_end(l, p) == IF p > len(l) THEN Buf(l, p) ELSE Buf(Slice(l, 0, p), p)

\* clear_to_line_end that removes the terminator of the line as well
clear_to_line_end_with_terminator(l, p) ==
    Buf(replace_range(l, p, current_line_range(l, p)[2], <<>>), p)

\* clear_to_line_end
clear_to_line_end(l, p) ==
    Buf(replace_range(l, p, find_current_line_end(l, p), <<>>), p)

\* clear_to_insertion_point that clears the current line only
clear_to_insertion_point_of_line(l, p) ==
    Buf(replace_range(l, current_line_range(l, p)[1], p, <<>>),
        current_line_range(l, p)[1])

\* clear_to_insertion_point
clear_to_insertion_point(l, p) == Buf(replace_range(l, 0, p, <<>>), 0)

\* replace
replace(l, p, start, end, text) == Buf(replace_range(l, start, end, text), p)

\* uppercase_word
uppercase_word(l, p) ==
    LET change_range == current_word_range(l, p)
        uppercased == to_uppercase(Slice(l, change_range[1], change_range[2]))
    IN  move_word_right(
            replace_range(l, change_range[1], change_range[2], uppercased), p)

\* lowercase_word
lowercase_word(l, p) ==
    LET change_range == current_word_range(l, p)
        lowercased == to_lowercase(Slice(l, change_range[1], change_range[2]))
    IN  move_word_right(
            replace_range(l, change_range[1], change_range[2], lowercased), p)

\* capitalize_char
capitalize_char(l, p) ==
    LET insertion_offset ==
            IF on_whitespace(l, p)
            THEN move_word_left(l, move_word_right(l, p).p).p
            ELSE p
        right_index == grapheme_right_index(l, insertion_offset)
        uppercased == to_uppercase(Slice(l, insertion_offset, right_index))
    IN  IF right_index > insertion_offset
        THEN move_right(
                 replace_range(l, insertion_offset, right_index, uppercased),
                 insertion_offset)
        ELSE Buf(l, insertion_offset)

\* delete_left_grapheme
delete_left_grapheme(l, p) ==
    LET left_index == grapheme_left_index(l, p)
    IN  IF left_index < p
        THEN Buf(replace_range(l, left_index, p, <<>>), left_index)
        ELSE Buf(l, p)

\* delete_right_grapheme deleting to the left, as delete_left_grapheme does
delete_right_grapheme_leftwards(l, p) == delete_left_grapheme(l, p)

\* delete_right_grapheme
delete_right_grapheme(l, p) ==
    LET right_index == grapheme_right_index(l, p)
    IN  IF right_index > p
        THEN Buf(replace_range(l, p, right_index, <<>>), p)
        ELSE Buf(l, p)

\* delete_word_left that leaves the cursor offset as it was
delete_word_left_cursor_kept(l, p) ==
    Buf(replace_range(l, word_left_index(l, p), p, <<>>), p)

\* delete_word_left
delete_word_left(l, p) ==
    LET left_word_index == word_left_index(l, p)
    IN  Buf(replace_range(l, left_word_index, p, <<>>), left_word_index)

\* delete_word_right
delete_word_right(l, p) ==
    LET right_word_index == word_right_index(l, p)
    IN  Buf(replace_range(l, p, right_word_index, <<>>), p)

\* swap_words: the content after the first of its two replace_range calls
swap_words_first(l, p) ==
    LET word_1_range == current_word_range(l, p)
        word_2_range == current_word_range(l, move_word_right(l, p).p)
        word_1 == Slice(l, word_1_range[1], word_1_range[2])
    IN  replace_range(l, word_2_range[1], word_2_range[2], word_1)

\* swap_words without its second replace_range
swap_words_half(l, p) ==
    LET moved == move_word_right(l, p)
    IN  IF current_word_range(l, p) # current_word_range(l, moved.p)
        THEN Buf(swap_words_first(l, p), move_word_left(l, moved.p).p)
        ELSE moved

\* swap_words that leaves the cursor behind the first word
swap_words_cursor_behind(l, p) ==
    LET word_1_range == current_word_range(l, p)
        moved == move_word_right(l, p)
        word_2_range == current_word_range(l, moved.p)
        word_2 == Slice(l, word_2_range[1], word_2_range[2])
    IN  IF word_1_range # word_2_range
        THEN Buf(replace_range(swap_words_first(l, p),
                               word_1_range[1], word_1_range[2], word_2),
                 moved.p)
        ELSE moved

\* swap_words
swap_words(l, p) ==
    LET word_1_range == current_word_range(l, p)
        moved == move_word_right(l, p)
        word_2_range == current_word_range(l, moved.p)
        word_2 == Slice(l, word_2_range[1], word_2_range[2])
    IN  IF word_1_range # word_2_range
        THEN Buf(replace_range(swap_words_first(l, p),
                               word_1_range[1], word_1_range[2], word_2),
                 move_word_left(l, moved.p).p)
        ELSE moved

\* swap_graphemes that does not move the cursor past the swapped pair
swap_graphemes_cursor_kept(l, p) ==
    LET updated_offset ==
            IF p = 0 THEN move_right(l, p).p
            ELSE IF p = len(l) THEN move_left(l, p).p
            ELSE p
        grapheme_1_start == grapheme_left_index(l, updated_offset)
        grapheme_2_end == grapheme_right_index(l, updated_offset)
        grapheme_1 == Slice(l, grapheme_1_start, updated_offset)
        grapheme_2 == Slice(l, updated_offset, grapheme_2_end)
    IN  IF grapheme_1_start < updated_offset /\ grapheme_2_end > updated_offset
        THEN Buf(replace_range(
                     replace_range(l, updated_offset, grapheme_2_end, grapheme_1),
                     grapheme_1_start, updated_offset, grapheme_2),
                 updated_offset)
        ELSE Buf(l, updated_offset)

\* swap_graphemes that puts the cursor back where the call found it when
\* there is no pair to swap
swap_graphemes_restoring(l, p) ==
    LET updated_offset ==
            IF p = 0 THEN move_right(l, p).p
            ELSE IF p = len(l) THEN move_left(l, p).p
            ELSE p
        grapheme_1_start == grapheme_left_index(l, updated_offset)
        grapheme_2_end == grapheme_right_index(l, updated_offset)
        grapheme_1 == Slice(l, grapheme_1_start, updated_offset)
        grapheme_2 == Slice(l, updated_offset, grapheme_2_end)
    IN  IF grapheme_1_start < updated_offset /\ grapheme_2_end > updated_offset
        THEN Buf(replace_range(
                     replace_range(l, updated_offset, grapheme_2_end, grapheme_1),
                     grapheme_1_start, updated_offset, grapheme_2),
                 grapheme_2_end)
        ELSE Buf(l, p)

\* swap_graphemes
swap_graphemes(l, p) ==
    LET updated_offset ==
            IF p = 0 THEN move_right(l, p).p
            ELSE IF p = len(l) THEN move_left(l, p).p
            ELSE p
        grapheme_1_start == grapheme_left_index(l, updated_offset)
        grapheme_2_end == grapheme_right_index(l, updated_offset)
        grapheme_1 == Slice(l, grapheme_1_start, updated_offset)
        grapheme_2 == Slice(l, updated_offset, grapheme_2_end)
    IN  IF grapheme_1_start < updated_offset /\ grapheme_2_end > updated_offset
        THEN Buf(replace_range(
                     replace_range(l, updated_offset, grapheme_2_end, grapheme_1),
                     grapheme_1_start, updated_offset, grapheme_2),
                 grapheme_2_end)
        ELSE Buf(l, updated_offset)

\* the column counted in bytes instead of graphemes
grapheme_col_bytes(l, p) == p - current_line_range(l, p)[1]

\* number of graphemes between the start of the current line and the cursor
grapheme_col(l, p) ==
    Len(grapheme_indices(Slice(l, current_line_range(l, p)[1], p)))

\* move_line_up that takes grapheme_col graphemes, not grapheme_col + 1
move_line_up_one_short(l, p) ==
    IF ~is_cursor_at_first_line(l, p)
    THEN LET old_range == current_line_range(l, p)
             col == grapheme_col(l, p)
             moved == move_left(l, old_range[1])
             new_range == current_line_range(l, moved.p)
             g == grapheme_indices(Slice(l, new_range[1], new_range[2]))
             taken == IF col <= Len(g) THEN col ELSE Len(g)
         IN  Buf(l, IF taken = 0 THEN new_range[1] ELSE g[taken] + new_range[1])
    ELSE Buf(l, p)

\* move_line_up without the check for the first line
move_line_up_unguarded(l, p) ==
    LET old_range == current_line_range(l, p)
        col == grapheme_col(l, p)
        moved == move_left(l, old_range[1])
        new_range == current_line_range(l, moved.p)
        g == grapheme_indices(Slice(l, new_range[1], new_range[2]))
        taken == IF col + 1 <= Len(g) THEN col + 1 ELSE Len(g)
    IN  Buf(l, IF taken = 0 THEN new_range[1] ELSE g[taken] + new_range[1])

\* move_line_up
move_line_up(l, p) ==
    IF ~is_cursor_at_first_line(l, p)
    THEN LET old_range == current_line_range(l, p)
             col == grapheme_col(l, p)
             moved == move_left(l, old_range[1])
             new_range == current_line_range(l, moved.p)
             g == grapheme_indices(Slice(l, new_range[1], new_range[2]))
             taken == IF col + 1 <= Len(g) THEN col + 1 ELSE Len(g)
         IN  Buf(l, IF taken = 0 THEN new_range[1] ELSE g[taken] + new_range[1])
    ELSE Buf(l, p)

\* move_line_down that falls back on the end of the buffer, not of the line
move_line_down_to_buffer_end(l, p) ==
    IF ~is_cursor_at_last_line(l, p)
    THEN LET old_range == current_line_range(l, p)
             col == grapheme_col(l, p)
             new_range == current_line_range(l, old_range[2])
             g == grapheme_indices(Slice(l, new_range[1], new_range[2]))
         IN  Buf(l, IF col + 1 <= Len(g)
                    THEN g[col + 1] + new_range[1]
                    ELSE len(l))
    ELSE Buf(l, p)

\* move_line_down
move_line_down(l, p) ==
    IF ~is_cursor_at_last_line(l, p)
    THEN LET old_range == current_line_range(l, p)
             col == grapheme_col(l, p)
             new_range == current_line_range(l, old_range[2])
             g == grapheme_indices(Slice(l, new_range[1], new_range[2]))
         IN  Buf(l, IF col + 1 <= Len(g)
                    THEN g[col + 1] + new_range[1]
                    ELSE find_current_line_end(l, old_range[2]))
    ELSE Buf(l, p)

\* move_right_until that goes to the end of the window when nothing matches
move_right_until_or_end(l, p, c, current_line) ==
    LET index == find_char_right(l, p, c, current_line)
    IN  IF index # None THEN Buf(l, index)
        ELSE Buf(l, find_char_right_range(l, p, current_line)[2])

\* move_right_until
move_right_until(l, p, c, current_line) ==
    LET index == find_char_right(l, p, c, current_line)
    IN  IF index # None THEN Buf(l, index) ELSE Buf(l, p)

\* move_right_before that stops on the match, as move_right_until does
move_right_before_on_match(l, p, c, current_line) ==
    LET index == find_char_right(l, p, c, current_line)
    IN  IF index # None THEN Buf(l, index) ELSE Buf(l, p)

\* move_right_before
move_right_before(l, p, c, current_line) ==
    LET index == find_char_right(l, p, c, current_line)
    IN  IF index # None THEN Buf(l, grapheme_left_index(l, index)) ELSE Buf(l, p)

\* move_left_until
move_left_until(l, p, c, current_line) ==
    LET index == find_char_left(l, p, c, current_line)
    IN  IF index # None THEN Buf(l, index) ELSE Buf(l, p)

\* move_left_before that steps over the grapheme at the match instead of
\* over the bytes of the matched character
move_left_before_grapheme_step(l, p, c, current_line) ==
    LET index == find_char_left(l, p, c, current_line)
    IN  IF index # None THEN Buf(l, grapheme_right_index(l, index)) ELSE Buf(l, p)

\* move_left_before
move_left_before(l, p, c, current_line) ==
    LET index == find_char_left(l, p, c, current_line)
    IN  IF index # None THEN Buf(l, index + len_utf8(c)) ELSE Buf(l, p)

\* delete_right_until_char that leaves the matched character in place
delete_right_until_char_exclusive(l, p, c, current_line) ==
    LET index == find_char_right(l, p, c, current_line)
    IN  IF index # None
        THEN Buf(replace_range(l, p, index, <<>>), p)
        ELSE Buf(l, p)

\* delete_right_until_char
delete_right_until_char(l, p, c, current_line) ==
    LET index == find_char_right(l, p, c, current_line)
    IN  IF index # None
        THEN Buf(replace_range(l, p, index + len_utf8(c), <<>>), p)
        ELSE Buf(l, p)

\* delete_right_before_char
delete_right_before_char(l, p, c, current_line) ==
    LET index == find_char_right(l, p, c, current_line)
    IN  IF index # None
        THEN Buf(replace_range(l, p, index, <<>>), p)
        ELSE Buf(l, p)

\* delete_left_until_char
delete_left_until_char(l, p, c, current_line) ==
    LET index == find_char_left(l, p, c, current_line)
    IN  IF index # None
        THEN Buf(replace_range(l, index, p, <<>>), index)
        ELSE Buf(l, p)

\* delete_left_before_char
delete_left_before_char(l, p, c, current_line) ==
    LET index == find_char_left(l, p, c, current_line)
    IN  IF index # None
        THEN Buf(replace_range(l, index + len_utf8(c), p, <<>>), index + len_utf8(c))
        ELSE Buf(l, p)

---------------------------------------------------------------------------
(* Panics.  Slicing a str off a char boundary, or with start > end, panics; *)
(* so do String::insert, insert_str, truncate and replace_range.            *)

\* every function that starts by slicing `lines` at the cursor
PanicsAt(l, p) == ~is_char_boundary(l, p)

\* clear_to_end: String::truncate asserts the boundary only within the string
clear_to_end_panics(l, p) == p <= len(l) /\ ~is_char_boundary(l, p)

\* clear_to_line_end: the range insertion_point..find_current_line_end()
clear_to_line_end_panics(l, p) ==
    PanicsAt(l, p) \/ find_current_line_end(l, p) < p

\* find_char_right: the range char_offset..end
find_char_right_panics(l, p, current_line) ==
    \/ PanicsAt(l, p)
    \/ find_char_right_range(l, p, current_line)[1]
           > find_char_right_range(l, p, current_line)[2]

\* swap_words: the second replace_range, on the already changed content
swap_words_panics(l, p) ==
    \/ PanicsAt(l, p)
    \/ /\ current_word_range(l, p) # current_word_range(l, move_word_right(l, p).p)
       /\ ~SliceOk(swap_words_first(l, p),
                   current_word_range(l, p)[1], current_word_range(l, p)[2])

\* uppercase_word / lowercase_word: move_word_right slices at the cursor,
\* which the replacement may have left off a char boundary or past the end
uppercase_word_panics(l, p) ==
    \/ PanicsAt(l, p)
    \/ LET change_range == current_word_range(l, p)
           uppercased == to_uppercase(Slice(l, change_range[1], change_range[2]))
       IN  PanicsAt(replace_range(l, change_range[1], change_range[2], uppercased), p)

lowercase_word_panics(l, p) ==
    \/ PanicsAt(l, p)
    \/ LET change_range == current_word_range(l, p)
           lowercased == to_lowercase(Slice(l, change_range[1], change_range[2]))
       IN  PanicsAt(replace_range(l, change_range[1], change_range[2], lowercased), p)

\* replace: String::replace_range(range, text)
replace_panics(l, start, end) == ~SliceOk(l, start, end)

---------------------------------------------------------------------------
(* Inputs *)

\* all strings of at most n characters
Strings(n) == UNION {[1..k -> Chars] : k \in 0..n}

\* texts a buffer is built from or set to (From<&str>, set_buffer)
Texts ==
    { <<>>,
      <<"a", CR, LF, "A">>,
      <<"a", "a", LF, "a">>,
      <<EMOJI, LF, "a", ACUTE>> }

\* longer texts a buffer is built from: lines of different lengths, ended
\* by LF or CR LF, and a grapheme of two code points before the cursor
LongTexts ==
    { <<"a", "a", LF, "a", CR, LF>>,
      <<"a", CR, LF, "a", "a">>,
      <<"a", ACUTE, "a", LF, "a", "a">>,
      <<"a", CR, LF, "a", LF>> }

\* texts of several words a buffer is built from: words of different
\* lengths, in bytes and in characters, and a letter whose uppercase is shorter
WordTexts ==
    { <<"a", "A", SPACE, "a">>,
      <<"a", ACUTE, SPACE, "A", SPACE>>,
      <<DOTLESS, "a", SPACE, "a">>,
      <<DOTLESS, DOTLESS>> }

\* texts given to insert_str
InsertTexts == { <<EMOJI>>, <<"a", ACUTE>>, <<CR, LF>>, <<ACUTE>> }

\* texts given to replace
ReplaceTexts == { <<>>, <<"A">> }

\* characters searched for by the find/move/delete-until family
SearchChars == {"a", LF, EMOJI}

---------------------------------------------------------------------------
(* Actions: one per public function of LineBuffer *)

\* a call of `name` with arguments a: it panics (pan), or leaves buffer b
\* and returns r
Call(name, a, pan, b, r) ==
    /\ ~panicked
    /\ op = "none"
    /\ op' = name
    /\ args' = a
    /\ pre_lines' = lines
    /\ pre_ip' = insertion_point
    /\ panicked' = pan
    /\ lines' = IF pan THEN lines ELSE b.l
    /\ insertion_point' = IF pan THEN insertion_point ELSE b.p
    /\ ret' = IF pan THEN 0 ELSE r

\* a call that only reads the buffer
Query(name, a, pan, r) == Call(name, a, pan, Buf(lines, insertion_point), r)

\* a call of a unit function that slices at the cursor first
Edit(name, a, b) == Call(name, a, PanicsAt(lines, insertion_point), b, 0)

\* the caller has taken the result: the next call can be made
Return ==
    /\ ~panicked
    /\ op # "none"
    /\ op' = "none"
    /\ args' = <<>>
    /\ pre_lines' = <<>>
    /\ pre_ip' = 0
    /\ ret' = 0
    /\ UNCHANGED <<lines, insertion_point, panicked>>

Replace ==
    \E text \in ReplaceTexts : \E start \in 0..len(lines) : \E end \in start..len(lines) :
        /\ text = <<>> \/ Len(lines) < MaxLen
        /\ Call("replace", <<start, end, text>>, replace_panics(lines, start, end),
                replace(lines, insertion_point, start, end, text), 0)

IsEmpty == Query("is_empty", <<>>, FALSE, is_empty(lines))

IsValid == Query("is_valid", <<>>, FALSE, is_valid(lines, insertion_point))

InsertionPoint == Query("insertion_point", <<>>, FALSE, insertion_point)

SetInsertionPoint ==
    \E offset \in 0..(len(lines) + MaxOver) :
        Call("set_insertion_point", <<offset>>, FALSE,
             set_insertion_point(lines, insertion_point, offset), 0)

GetBuffer == Query("get_buffer", <<>>, FALSE, lines)

SetBuffer ==
    \E buffer \in Texts :
        Call("set_buffer", <<buffer>>, FALSE,
             set_buffer(lines, insertion_point, buffer), 0)

Line ==
    Query("line", <<>>, PanicsAt(lines, insertion_point), line(lines, insertion_point))

NumLines == Query("num_lines", <<>>, FALSE, num_lines(lines))

EndsWith == \E c \in SearchChars : Query("ends_with", <<c>>, FALSE, ends_with(lines, c))

MoveToStart ==
    Call("move_to_start", <<>>, FALSE, move_to_start(lines, insertion_point), 0)

MoveToLineStart ==
    Edit("move_to_line_start", <<>>, move_to_line_start(lines, insertion_point))

MoveToLineEnd ==
    Edit("move_to_line_end", <<>>, move_to_line_end(lines, insertion_point))

MoveToEnd ==
    Call("move_to_end", <<>>, FALSE, move_to_end(lines, insertion_point), 0)

LenOp == Query("len", <<>>, FALSE, len(lines))

FindCurrentLineEnd ==
    Query("find_current_line_end", <<>>, PanicsAt(lines, insertion_point),
          find_current_line_end(lines, insertion_point))

GraphemeRightIndex ==
    Query("grapheme_right_index", <<>>, PanicsAt(lines, insertion_point),
          grapheme_right_index(lines, insertion_point))

GraphemeLeftIndex ==
    Query("grapheme_left_index", <<>>, PanicsAt(lines, insertion_point),
          grapheme_left_index(lines, insertion_point))

WordRightIndex ==
    Query("word_right_index", <<>>, PanicsAt(lines, insertion_point),
          word_right_index(lines, insertion_point))

WordLeftIndex ==
    Query("word_left_index", <<>>, PanicsAt(lines, insertion_point),
          word_left_index(lines, insertion_point))

MoveRight == Edit("move_right", <<>>, move_right(lines, insertion_point))

MoveLeft == Edit("move_left", <<>>, move_left(lines, insertion_point))

MoveWordLeft == Edit("move_word_left", <<>>, move_word_left(lines, insertion_point))

MoveWordRight == Edit("move_word_right", <<>>, move_word_right(lines, insertion_point))

InsertChar ==
    \E c \in Chars :
        /\ Len(lines) < MaxLen
        /\ Edit("insert_char", <<c>>, insert_char(lines, insertion_point, c))

InsertStr ==
    \E string \in InsertTexts :
        /\ Len(lines) + Len(string) <= MaxLen
        /\ Edit("insert_str", <<string>>, insert_str(lines, insertion_point, string))

\* delete_left_grapheme called immediately after insert_char or insert_str
\* has returned: the state before the insertion stays on record
DeleteLeftGraphemeAfterInsert ==
    /\ ~panicked
    /\ op \in {"insert_char", "insert_str"}
    /\ op' = IF op = "insert_char" THEN "insert_char, delete_left_grapheme"
             ELSE "insert_str, delete_left_grapheme"
    /\ panicked' = PanicsAt(lines, insertion_point)
    /\ lines' = IF panicked' THEN lines
                ELSE delete_left_grapheme(lines, insertion_point).l
    /\ insertion_point' = IF panicked' THEN insertion_point
                          ELSE delete_left_grapheme(lines, insertion_point).p
    /\ ret' = 0
    /\ UNCHANGED <<args, pre_lines, pre_ip>>

\* move_left called immediately after move_right has returned, and
\* move_right immediately after move_left: the state before the first move
\* stays on record
MoveLeftAfterMoveRight ==
    /\ ~panicked
    /\ op = "move_right"
    /\ op' = "move_right, move_left"
    /\ panicked' = PanicsAt(lines, insertion_point)
    /\ insertion_point' = IF panicked' THEN insertion_point
                          ELSE move_left(lines, insertion_point).p
    /\ ret' = 0
    /\ UNCHANGED <<lines, args, pre_lines, pre_ip>>

MoveRightAfterMoveLeft ==
    /\ ~panicked
    /\ op = "move_left"
    /\ op' = "move_left, move_right"
    /\ panicked' = PanicsAt(lines, insertion_point)
    /\ insertion_point' = IF panicked' THEN insertion_point
                          ELSE move_right(lines, insertion_point).p
    /\ ret' = 0
    /\ UNCHANGED <<lines, args, pre_lines, pre_ip>>

\* the caller repeats the move it has just made: the same operation runs
\* again from the state the last one left
MoveAgain ==
    /\ ~panicked
    /\ op \in {"move_right", "move_left", "move_word_right", "move_word_left"}
    /\ panicked' = PanicsAt(lines, insertion_point)
    /\ insertion_point' =
           IF panicked' THEN insertion_point
           ELSE CASE op = "move_right" -> move_right(lines, insertion_point).p
                  [] op = "move_left" -> move_left(lines, insertion_point).p
                  [] op = "move_word_right" -> move_word_right(lines, insertion_point).p
                  [] op = "move_word_left" -> move_word_left(lines, insertion_point).p
    /\ pre_lines' = lines
    /\ pre_ip' = insertion_point
    /\ UNCHANGED <<lines, op, args, ret>>

Clear == Call("clear", <<>>, FALSE, clear(lines, insertion_point), 0)

ClearToEnd ==
    Call("clear_to_end", <<>>, clear_to_end_panics(lines, insertion_point),
         clear_to_end(lines, insertion_point), 0)

ClearToLineEnd ==
    Call("clear_to_line_end", <<>>, clear_to_line_end_panics(lines, insertion_point),
         clear_to_line_end(lines, insertion_point), 0)

ClearToInsertionPoint ==
    Edit("clear_to_insertion_point", <<>>,
         clear_to_insertion_point(lines, insertion_point))

OnWhitespace ==
    Query("on_whitespace", <<>>, PanicsAt(lines, insertion_point),
          on_whitespace(lines, insertion_point))

CurrentWordRange ==
    Query("current_word_range", <<>>, PanicsAt(lines, insertion_point),
          current_word_range(lines, insertion_point))

CurrentLineRange ==
    Query("current_line_range", <<>>, PanicsAt(lines, insertion_point),
          current_line_range(lines, insertion_point))

UppercaseWord ==
    Call("uppercase_word", <<>>, uppercase_word_panics(lines, insertion_point),
         uppercase_word(lines, insertion_point), 0)

LowercaseWord ==
    Call("lowercase_word", <<>>, lowercase_word_panics(lines, insertion_point),
         lowercase_word(lines, insertion_point), 0)

WordCount == Query("word_count", <<>>, FALSE, word_count(lines))

CapitalizeChar == Edit("capitalize_char", <<>>, capitalize_char(lines, insertion_point))

DeleteLeftGrapheme ==
    Edit("delete_left_grapheme", <<>>, delete_left_grapheme(lines, insertion_point))

DeleteRightGrapheme ==
    Edit("delete_right_grapheme", <<>>, delete_right_grapheme(lines, insertion_point))

DeleteWordLeft == Edit("delete_word_left", <<>>, delete_word_left(lines, insertion_point))

DeleteWordRight ==
    Edit("delete_word_right", <<>>, delete_word_right(lines, insertion_point))

SwapWords ==
    Call("swap_words", <<>>, swap_words_panics(lines, insertion_point),
         swap_words(lines, insertion_point), 0)

SwapGraphemes == Edit("swap_graphemes", <<>>, swap_graphemes(lines, insertion_point))

MoveLineUp == Edit("move_line_up", <<>>, move_line_up(lines, insertion_point))

MoveLineDown == Edit("move_line_down", <<>>, move_line_down(lines, insertion_point))

\* move_line_up called immediately after move_line_down has returned: the
\* state before move_line_down stays on record
MoveLineUpAfterMoveLineDown ==
    /\ ~panicked
    /\ op = "move_line_down"
    /\ op' = "move_line_down, move_line_up"
    /\ panicked' = PanicsAt(lines, insertion_point)
    /\ insertion_point' = IF panicked' THEN insertion_point
                          ELSE move_line_up(lines, insertion_point).p
    /\ ret' = 0
    /\ UNCHANGED <<lines, args, pre_lines, pre_ip>>

IsCursorAtFirstLine ==
    Query("is_cursor_at_first_line", <<>>, PanicsAt(lines, insertion_point),
          is_cursor_at_first_line(lines, insertion_point))

IsCursorAtLastLine ==
    Query("is_cursor_at_last_line", <<>>, PanicsAt(lines, insertion_point),
          is_cursor_at_last_line(lines, insertion_point))

FindCharRight ==
    \E c \in SearchChars : \E current_line \in BOOLEAN :
        Query("find_char_right", <<c, current_line>>,
              find_char_right_panics(lines, insertion_point, current_line),
              find_char_right(lines, insertion_point, c, current_line))

FindCharLeft ==
    \E c \in SearchChars : \E current_line \in BOOLEAN :
        Query("find_char_left", <<c, current_line>>,
              PanicsAt(lines, insertion_point),
              find_char_left(lines, insertion_point, c, current_line))

MoveRightUntil ==
    \E c \in SearchChars : \E current_line \in BOOLEAN :
        Call("move_right_until", <<c, current_line>>,
             find_char_right_panics(lines, insertion_point, current_line),
             move_right_until(lines, insertion_point, c, current_line),
             move_right_until(lines, insertion_point, c, current_line).p)

MoveRightBefore ==
    \E c \in SearchChars : \E current_line \in BOOLEAN :
        Call("move_right_before", <<c, current_line>>,
             find_char_right_panics(lines, insertion_point, current_line),
             move_right_before(lines, insertion_point, c, current_line),
             move_right_before(lines, insertion_point, c, current_line).p)

MoveLeftUntil ==
    \E c \in SearchChars : \E current_line \in BOOLEAN :
        Call("move_left_until", <<c, current_line>>,
             PanicsAt(lines, insertion_point),
             move_left_until(lines, insertion_point, c, current_line),
             move_left_until(lines, insertion_point, c, current_line).p)

MoveLeftBefore ==
    \E c \in SearchChars : \E current_line \in BOOLEAN :
        Call("move_left_before", <<c, current_line>>,
             PanicsAt(lines, insertion_point),
             move_left_before(lines, insertion_point, c, current_line),
             move_left_before(lines, insertion_point, c, current_line).p)

\* the caller makes the search move it has just made a second time, with the
\* same character and flag: the state before the first call and the value
\* the first call returned stay on record
SearchMoveAgain ==
    /\ ~panicked
    /\ op \in {"move_right_until", "move_right_before",
               "move_left_until", "move_left_before"}
    /\ op' = CASE op = "move_right_until" -> "move_right_until, move_right_until"
               [] op = "move_right_before" -> "move_right_before, move_right_before"
               [] op = "move_left_until" -> "move_left_until, move_left_until"
               [] op = "move_left_before" -> "move_left_before, move_left_before"
    /\ panicked' =
           IF op \in {"move_right_until", "move_right_before"}
           THEN find_char_right_panics(lines, insertion_point, args[2])
           ELSE PanicsAt(lines, insertion_point)
    /\ insertion_point' =
           IF panicked' THEN insertion_point
           ELSE CASE op = "move_right_until" ->
                         move_right_until(lines, insertion_point, args[1], args[2]).p
                  [] op = "move_right_before" ->
                         move_right_before(lines, insertion_point, args[1], args[2]).p
                  [] op = "move_left_until" ->
                         move_left_until(lines, insertion_point, args[1], args[2]).p
                  [] op = "move_left_before" ->
                         move_left_before(lines, insertion_point, args[1], args[2]).p
    /\ UNCHANGED <<lines, args, pre_lines, pre_ip, ret>>

DeleteRightUntilChar ==
    \E c \in SearchChars : \E current_line \in BOOLEAN :
        Call("delete_right_until_char", <<c, current_line>>,
             find_char_right_panics(lines, insertion_point, current_line),
             delete_right_until_char(lines, insertion_point, c, current_line), 0)

DeleteRightBeforeChar ==
    \E c \in SearchChars : \E current_line \in BOOLEAN :
        Call("delete_right_before_char", <<c, current_line>>,
             find_char_right_panics(lines, insertion_point, current_line),
             delete_right_before_char(lines, insertion_point, c, current_line), 0)

DeleteLeftUntilChar ==
    \E c \in SearchChars : \E current_line \in BOOLEAN :
        Call("delete_left_until_char", <<c, current_line>>,
             PanicsAt(lines, insertion_point),
             delete_left_until_char(lines, insertion_point, c, current_line), 0)

DeleteLeftBeforeChar ==
    \E c \in SearchChars : \E current_line \in BOOLEAN :
        Call("delete_left_before_char", <<c, current_line>>,
             PanicsAt(lines, insertion_point),
             delete_left_before_char(lines, insertion_point, c, current_line), 0)

---------------------------------------------------------------------------
(* Specifications *)

\* the buffer b right after construction
Built(name, a, b) ==
    /\ lines = b.l
    /\ insertion_point = b.p
    /\ panicked = FALSE
    /\ op = name
    /\ args = a
    /\ pre_lines = <<>>
    /\ pre_ip = 0
    /\ ret = 0

\* LineBuffer::new(), or LineBuffer::from(text)
Init == \E text \in Texts : Built("from", <<text>>, from_str(text))

\* the functions that compute the cursor themselves
Checked ==
    \/ SetBuffer \/ MoveToStart \/ MoveToLineStart \/ MoveToLineEnd \/ MoveToEnd
    \/ MoveRight \/ MoveLeft \/ MoveWordLeft \/ MoveWordRight
    \/ InsertChar
    \/ Clear \/ ClearToEnd \/ ClearToLineEnd \/ ClearToInsertionPoint
    \/ UppercaseWord \/ LowercaseWord \/ CapitalizeChar
    \/ DeleteLeftGrapheme \/ DeleteRightGrapheme
    \/ DeleteWordLeft \/ DeleteWordRight
    \/ SwapWords \/ SwapGraphemes
    \/ MoveLineUp \/ MoveLineDown
    \/ MoveRightUntil \/ MoveRightBefore \/ MoveLeftUntil \/ MoveLeftBefore
    \/ DeleteRightUntilChar \/ DeleteRightBeforeChar
    \/ DeleteLeftUntilChar \/ DeleteLeftBeforeChar

\* the functions documented as not validating what they are given
Unchecked == SetInsertionPoint \/ InsertStr \/ Replace

\* the functions that only read the buffer
Queries ==
    \/ IsEmpty \/ IsValid \/ InsertionPoint \/ GetBuffer \/ Line \/ NumLines
    \/ EndsWith \/ LenOp \/ FindCurrentLineEnd
    \/ GraphemeRightIndex \/ GraphemeLeftIndex \/ WordRightIndex \/ WordLeftIndex
    \/ OnWhitespace \/ CurrentWordRange \/ CurrentLineRange \/ WordCount
    \/ IsCursorAtFirstLine \/ IsCursorAtLastLine
    \/ FindCharRight \/ FindCharLeft

Next == Checked \/ Unchecked \/ Queries \/ Return

\* any sequence of public calls on a constructed buffer
Spec == Init /\ [][Next]_vars

\* any sequence of calls of the functions that compute the cursor themselves
SpecChecked == Init /\ [][Checked \/ Return]_vars

\* a buffer built from any text, its cursor set to any offset
\* (the tests' buffer_with(input) and set_insertion_point(in_location))
InitAny ==
    \E text \in Strings(MaxLen) \cup Texts \cup LongTexts \cup WordTexts :
        \E offset \in 0..(len(text) + MaxOver) :
            Built("none", <<>>, set_insertion_point(text, len(text), offset))

\* vertical movement, alone and down then up, and the line queries, from
\* any buffer
SpecLine ==
    InitAny /\ [][MoveLineUp \/ MoveLineDown \/ MoveLineUpAfterMoveLineDown
                    \/ FindCurrentLineEnd \/ CurrentLineRange \/ Return]_vars

\* the character search family, from any buffer
SpecSearch ==
    InitAny /\ [][FindCharRight \/ FindCharLeft
                    \/ MoveRightUntil \/ MoveRightBefore
                    \/ MoveLeftUntil \/ MoveLeftBefore
                    \/ DeleteRightUntilChar \/ DeleteRightBeforeChar
                    \/ DeleteLeftUntilChar \/ DeleteLeftBeforeChar
                    \/ Return]_vars

\* the operations within the current line, from any buffer
SpecCurrentLine ==
    InitAny /\ [][MoveToLineStart \/ MoveToLineEnd \/ ClearToLineEnd
                    \/ FindCurrentLineEnd \/ CurrentLineRange \/ Return]_vars

\* the four search moves, each made once or twice in a row, from any buffer
SpecSearchTwice ==
    InitAny /\ [][MoveRightUntil \/ MoveRightBefore \/ MoveLeftUntil
                    \/ MoveLeftBefore \/ SearchMoveAgain]_vars

\* insertion, set_buffer and clear, from a buffer built from a string or from
\* any buffer
SpecInsert ==
    (Init \/ InitAny)
        /\ [][InsertChar \/ InsertStr \/ SetBuffer \/ Clear \/ Return]_vars

\* an insertion followed at once by delete_left_grapheme, from any buffer
SpecRoundTrip ==
    InitAny /\ [][InsertChar \/ InsertStr \/ DeleteLeftGraphemeAfterInsert
                    \/ Return]_vars

\* the deletions of a word and the clear_to functions, from any buffer
SpecRemove ==
    InitAny /\ [][DeleteWordLeft \/ DeleteWordRight \/ ClearToEnd
                    \/ ClearToLineEnd \/ ClearToInsertionPoint \/ Return]_vars

\* the line and the word queries, from any buffer
SpecQueries ==
    InitAny /\ [][Line \/ NumLines \/ IsCursorAtFirstLine \/ IsCursorAtLastLine
                    \/ WordRightIndex \/ WordLeftIndex \/ Return]_vars

\* the moves by a grapheme, alone and followed at once by the opposite
\* move, from any buffer
SpecMoves ==
    InitAny /\ [][MoveRight \/ MoveLeft \/ MoveLeftAfterMoveRight
                    \/ MoveRightAfterMoveLeft \/ Return]_vars

\* one of the four moves, from any buffer, repeated for ever: the caller
\* keeps calling it, so a further call is always eventually made
SpecRepeat ==
    /\ InitAny
    /\ [][MoveRight \/ MoveLeft \/ MoveWordRight \/ MoveWordLeft \/ MoveAgain]_vars
    /\ WF_vars(MoveAgain)

\* the swaps and the case changes, from any buffer
SpecWords ==
    InitAny /\ [][SwapGraphemes \/ SwapWords \/ UppercaseWord \/ LowercaseWord
                    \/ CapitalizeChar \/ Return]_vars

\* grapheme deletion from any buffer
SpecDelete == InitAny /\ [][DeleteLeftGrapheme \/ DeleteRightGrapheme \/ Return]_vars

---------------------------------------------------------------------------
(* Claims *)

\* the grapheme clusters of s as <<start, end>> byte ranges
grapheme_ranges(s) ==
    LET g == grapheme_indices(s)
    IN  [k \in 1..Len(g) |-> <<g[k], IF k < Len(g) THEN g[k+1] ELSE len(s)>>]

\* p lies strictly inside a grapheme cluster of l made of several code points
InsideCluster(l, p) ==
    \E k \in 1..Len(grapheme_ranges(l)) :
        LET r == grapheme_ranges(l)[k]
        IN  r[1] < p /\ p < r[2] /\ Len(Slice(l, r[1], r[2])) > 1

\* C1: after every step of any sequence of public operations on a buffer
\* that was created empty or from a string, is_valid() holds.
C1_is_valid_after_each_step == is_valid(lines, insertion_point)

\* C2: with only the boundary-computing operations, the cursor stays within
\* 0..len(content) and never lies inside a grapheme cluster of several code
\* points (such as between the CR and the LF of a CR LF terminator).
C2_cursor_never_inside_cluster ==
    /\ 0 <= insertion_point
    /\ insertion_point <= len(lines)
    /\ ~InsideCluster(lines, insertion_point)

\* l without the bytes of the range r
Without(l, r) == Slice(l, 0, r[1]) \o Slice(l, r[2], len(l))

\* C3: delete_left_grapheme with the cursor at offset 0, and
\* delete_right_grapheme with the cursor at len(content), change neither the
\* content nor the cursor.
C3_delete_at_edge_is_noop ==
    /\ (op = "delete_left_grapheme" /\ pre_ip = 0)
           => (~panicked /\ lines = pre_lines /\ insertion_point = pre_ip)
    /\ (op = "delete_right_grapheme" /\ pre_ip = len(pre_lines))
           => (~panicked /\ lines = pre_lines /\ insertion_point = pre_ip)

\* delete_right_grapheme has returned from a call at the end of a buffer
\* that is not empty
C3_witness ==
    /\ op = "delete_right_grapheme"
    /\ ~panicked
    /\ pre_lines # <<>>
    /\ pre_ip = len(pre_lines)

\* C4: from a cursor on a grapheme boundary away from the buffer edge,
\* delete_left_grapheme removes exactly the grapheme that ends at the cursor
\* and puts the cursor at its start; delete_right_grapheme removes exactly
\* the grapheme that starts at the cursor and leaves the cursor offset
\* unchanged; the rest of the content is kept in order.
C4_delete_exactly_one_grapheme ==
    /\ (op = "delete_left_grapheme" /\ is_valid(pre_lines, pre_ip) /\ pre_ip > 0)
           => \E k \in 1..Len(grapheme_ranges(pre_lines)) :
                  LET r == grapheme_ranges(pre_lines)[k]
                  IN  /\ r[2] = pre_ip
                      /\ lines = Without(pre_lines, r)
                      /\ insertion_point = r[1]
    /\ (op = "delete_right_grapheme" /\ is_valid(pre_lines, pre_ip)
            /\ pre_ip < len(pre_lines))
           => \E k \in 1..Len(grapheme_ranges(pre_lines)) :
                  LET r == grapheme_ranges(pre_lines)[k]
                  IN  /\ r[1] = pre_ip
                      /\ lines = Without(pre_lines, r)
                      /\ insertion_point = pre_ip

\* delete_left_grapheme has removed a grapheme of two code points from the
\* middle of the buffer
C4_witness ==
    /\ op = "delete_left_grapheme"
    /\ is_valid(pre_lines, pre_ip)
    /\ 0 < insertion_point
    /\ pre_ip < len(pre_lines)
    /\ Len(pre_lines) = Len(lines) + 2

\* the offsets in from..(to - 1) at which the character c of l starts
Occurrences(l, c, from, to) ==
    {Off(l, i - 1) : i \in {j \in 1..Len(l) : l[j] = c}} \cap from..(to - 1)

\* largest and smallest element of a non-empty set of offsets
Max(S) == CHOOSE x \in S : \A y \in S : y <= x
Min(S) == CHOOSE x \in S : \A y \in S : x <= y

\* C5: move_line_up with no LF before the cursor, and move_line_down with
\* no LF at or after the cursor, change neither the content nor the cursor.
C5_vertical_move_at_edge_is_noop ==
    /\ (op = "move_line_up" /\ is_char_boundary(pre_lines, pre_ip)
            /\ Occurrences(pre_lines, LF, 0, pre_ip) = {})
           => (~panicked /\ lines = pre_lines /\ insertion_point = pre_ip)
    /\ (op = "move_line_down" /\ is_char_boundary(pre_lines, pre_ip)
            /\ Occurrences(pre_lines, LF, pre_ip, len(pre_lines)) = {})
           => (~panicked /\ lines = pre_lines /\ insertion_point = pre_ip)

\* move_line_up has returned from a call on the first of several lines, with
\* the cursor not at offset 0
C5_witness ==
    /\ op = "move_line_up"
    /\ ~panicked
    /\ pre_ip > 0
    /\ Occurrences(pre_lines, LF, 0, pre_ip) = {}
    /\ Occurrences(pre_lines, LF, pre_ip, len(pre_lines)) # {}

\* start of the line the cursor p is on: just past the last LF before p
LineStart(l, p) ==
    IF Occurrences(l, LF, 0, p) = {} THEN 0 ELSE Max(Occurrences(l, LF, 0, p)) + 1

\* end of the content of the line that starts at start: its LF, or the CR of
\* its CR LF, or the end of the buffer
ContentEnd(l, start) ==
    IF Occurrences(l, LF, start, len(l)) = {} THEN len(l)
    ELSE LET lf == Min(Occurrences(l, LF, start, len(l)))
         IN  IF lf - 1 \in Occurrences(l, CR, start, lf) THEN lf - 1 ELSE lf

\* offset of grapheme column col of the line that starts at start, or of the
\* end of its content when it has fewer graphemes
AtColumn(l, start, col) ==
    LET g == grapheme_indices(Slice(l, start, ContentEnd(l, start)))
    IN  IF col < Len(g) THEN start + g[col + 1] ELSE ContentEnd(l, start)

\* grapheme column of the cursor p
Column(l, p) == Len(grapheme_indices(Slice(l, LineStart(l, p), p)))

\* C6: from a cursor on a grapheme boundary at grapheme column col,
\* move_line_down (not on the last line) puts the cursor on the next line at
\* column min(col, graphemes of that line's content without its LF or CR LF)
\* and move_line_up (not on the first line) does so on the previous line;
\* the content is unchanged.
C6_vertical_move_keeps_column ==
    /\ (op = "move_line_down" /\ is_valid(pre_lines, pre_ip)
            /\ Occurrences(pre_lines, LF, pre_ip, len(pre_lines)) # {})
           => /\ ~panicked
              /\ lines = pre_lines
              /\ insertion_point =
                    AtColumn(pre_lines,
                             Min(Occurrences(pre_lines, LF, pre_ip, len(pre_lines))) + 1,
                             Column(pre_lines, pre_ip))
    /\ (op = "move_line_up" /\ is_valid(pre_lines, pre_ip)
            /\ Occurrences(pre_lines, LF, 0, pre_ip) # {})
           => /\ ~panicked
              /\ lines = pre_lines
              /\ insertion_point =
                    AtColumn(pre_lines,
                             LineStart(pre_lines, LineStart(pre_lines, pre_ip) - 1),
                             Column(pre_lines, pre_ip))

\* move_line_down has moved from column 2 of a line whose first grapheme has
\* two code points to column 2 of the next line
C6_witness ==
    /\ op = "move_line_down"
    /\ is_valid(pre_lines, pre_ip)
    /\ Column(pre_lines, pre_ip) = 2
    /\ pre_ip - LineStart(pre_lines, pre_ip) > 2
    /\ insertion_point - LineStart(lines, insertion_point) = 2
    /\ LineStart(lines, insertion_point) > pre_ip

\* C9: find_current_line_end() returns the offset of the first LF at or
\* after the cursor, less one when the byte just before that LF is CR, and
\* len(content) when there is no LF at or after the cursor; it changes
\* neither the content nor the cursor.
C9_find_current_line_end ==
    (op = "find_current_line_end" /\ ~panicked)
        => /\ lines = pre_lines
           /\ insertion_point = pre_ip
           /\ LET lfs == Occurrences(lines, LF, insertion_point, len(lines))
              IN  ret = IF lfs = {} THEN len(lines)
                        ELSE IF Min(lfs) - 1 \in Occurrences(lines, CR, 0, len(lines))
                             THEN Min(lfs) - 1
                             ELSE Min(lfs)

\* find_current_line_end has returned the offset of the CR of a CR LF that
\* is to the right of the cursor
C9_witness ==
    /\ op = "find_current_line_end"
    /\ ~panicked
    /\ insertion_point < ret
    /\ ret \in Occurrences(lines, CR, 0, len(lines))
    /\ ret + 1 \in Occurrences(lines, LF, 0, len(lines))

\* C10 as stated: current_line_range() starts just past the last LF at or
\* before the cursor (0 if none) and ends just past the next LF after the
\* cursor (len(content) if none).
C10_as_stated ==
    (op = "current_line_range" /\ ~panicked)
        => LET before == Occurrences(lines, LF, 0, insertion_point + 1)
               after == Occurrences(lines, LF, insertion_point + 1, len(lines))
           IN  ret = << IF before = {} THEN 0 ELSE Max(before) + 1,
                        IF after = {} THEN len(lines) ELSE Min(after) + 1 >>

\* C10, amended: current_line_range() starts just past the last LF strictly
\* before the cursor (0 if none) and ends just past the first LF at or after
\* the cursor (len(content) if none), so the range includes the line's own
\* terminator; it changes neither the content nor the cursor.
C10_current_line_range ==
    (op = "current_line_range" /\ ~panicked)
        => /\ lines = pre_lines
           /\ insertion_point = pre_ip
           /\ LET before == Occurrences(lines, LF, 0, insertion_point)
                  after == Occurrences(lines, LF, insertion_point, len(lines))
              IN  ret = << IF before = {} THEN 0 ELSE Max(before) + 1,
                           IF after = {} THEN len(lines) ELSE Min(after) + 1 >>

\* current_line_range has returned for a cursor on the LF of a line that is
\* neither the first nor the last
C10_witness ==
    /\ op = "current_line_range"
    /\ ~panicked
    /\ insertion_point \in Occurrences(lines, LF, 0, len(lines))
    /\ 0 < ret[1]
    /\ ret[2] < len(lines)

\* the window of a rightward search from cursor p: from the end of the
\* grapheme at the cursor to the end of the current line, terminator
\* included, or to the end of the buffer
RightWindow(l, p, current_line) ==
    LET here == {k \in 1..Len(grapheme_ranges(l)) :
                    grapheme_ranges(l)[k][1] <= p /\ p < grapheme_ranges(l)[k][2]}
        lfs == Occurrences(l, LF, p, len(l))
    IN  << IF here = {} THEN len(l) ELSE grapheme_ranges(l)[Min(here)][2],
           IF current_line /\ lfs # {} THEN Min(lfs) + 1 ELSE len(l) >>

\* the window of a leftward search from cursor p: from the start of the
\* current line, or of the buffer, to the cursor
LeftWindow(l, p, current_line) ==
    << IF current_line THEN LineStart(l, p) ELSE 0, p >>

RightSearches ==
    {"find_char_right", "move_right_until", "move_right_before",
     "delete_right_until_char", "delete_right_before_char"}

LeftSearches ==
    {"find_char_left", "move_left_until", "move_left_before",
     "delete_left_until_char", "delete_left_before_char"}

SearchMoves ==
    {"move_right_until", "move_right_before", "move_left_until", "move_left_before"}

SearchDeletes ==
    {"delete_right_until_char", "delete_right_before_char",
     "delete_left_until_char", "delete_left_before_char"}

\* the window of the search that has just returned
SearchWindow ==
    IF op \in RightSearches THEN RightWindow(pre_lines, pre_ip, args[2])
    ELSE LeftWindow(pre_lines, pre_ip, args[2])

\* the offsets of the searched character in the window of the search that
\* has just returned
SearchMatches == Occurrences(pre_lines, args[1], SearchWindow[1], SearchWindow[2])

\* C7: when the character does not occur in the search window,
\* find_char_right and find_char_left return no result, the four moves leave
\* the cursor where it was and return it, and the four deletes leave the
\* content and the cursor unchanged.
C7_no_match_changes_nothing ==
    (op \in RightSearches \cup LeftSearches /\ ~panicked /\ SearchMatches = {})
        => /\ lines = pre_lines
           /\ insertion_point = pre_ip
           /\ op \in {"find_char_right", "find_char_left"} => ret = None
           /\ op \in SearchMoves => ret = pre_ip

\* a rightward move has returned without a match although the character
\* occurs to the left of the cursor and on a later line
C7_witness ==
    /\ op \in {"move_right_until", "move_right_before"}
    /\ ~panicked
    /\ args[2]
    /\ SearchMatches = {}
    /\ Occurrences(pre_lines, args[1], 0, pre_ip) # {}
    /\ Occurrences(pre_lines, args[1], SearchWindow[2], len(pre_lines)) # {}

\* C8: with current_line = true no search matches a character on another
\* line: a find returns an offset inside the original current_line_range(),
\* a move leaves the content and line() unchanged and the cursor within the
\* original current_line_range(), and a delete leaves the text before and
\* after the original current_line_range() unchanged. With
\* current_line = false a rightward search finds the first occurrence in the
\* whole buffer right of the current grapheme and a leftward search the last
\* occurrence in the whole buffer left of the cursor.
C8_search_window ==
    (op \in RightSearches \cup LeftSearches /\ ~panicked)
        => LET range == current_line_range(pre_lines, pre_ip)
               tail == len(pre_lines) - range[2]
           IN  /\ (args[2] /\ op \in {"find_char_right", "find_char_left"}
                       /\ ret # None)
                      => (range[1] <= ret /\ ret < range[2])
               /\ (args[2] /\ op \in SearchMoves)
                      => /\ lines = pre_lines
                         /\ line(lines, insertion_point) = line(pre_lines, pre_ip)
                         /\ range[1] <= insertion_point
                         /\ insertion_point <= range[2]
               /\ (args[2] /\ op \in SearchDeletes)
                      => /\ len(lines) >= range[1] + tail
                         /\ Slice(lines, 0, range[1]) = Slice(pre_lines, 0, range[1])
                         /\ Slice(lines, len(lines) - tail, len(lines))
                                = Slice(pre_lines, range[2], len(pre_lines))
               /\ (~args[2] /\ op \in {"find_char_right", "move_right_until"})
                      => ret = IF SearchMatches = {}
                               THEN (IF op = "find_char_right" THEN None ELSE pre_ip)
                               ELSE Min(SearchMatches)
               /\ (~args[2] /\ op \in {"find_char_left", "move_left_until"})
                      => ret = IF SearchMatches = {}
                               THEN (IF op = "find_char_left" THEN None ELSE pre_ip)
                               ELSE Max(SearchMatches)

\* a rightward search limited to the current line has returned without a
\* match on that line although the character occurs on a later line
C8_witness ==
    /\ op \in {"find_char_right", "move_right_until", "delete_right_until_char"}
    /\ ~panicked
    /\ args[2]
    /\ lines = pre_lines
    /\ insertion_point = pre_ip
    /\ Occurrences(pre_lines, args[1],
                   current_line_range(pre_lines, pre_ip)[2], len(pre_lines)) # {}

\* the text of the k-th grapheme of l
Grapheme(l, k) == Slice(l, grapheme_ranges(l)[k][1], grapheme_ranges(l)[k][2])

\* the grapheme swap_graphemes takes as the right one of the pair, for a
\* cursor p on a grapheme boundary of a buffer of at least two graphemes:
\* the second at offset 0, the last at the end, else the one that starts at p
RightOfPair(l, p) ==
    IF p = 0 THEN 2
    ELSE IF p = len(l) THEN Len(grapheme_ranges(l))
    ELSE CHOOSE k \in 1..Len(grapheme_ranges(l)) : grapheme_ranges(l)[k][1] = p

\* C11: in a buffer of at least two graphemes, with the cursor on a grapheme
\* boundary, swap_graphemes exchanges the grapheme left of the cursor with the
\* one right of it (the first two at offset 0, the last two at the end),
\* leaves the cursor just past the pair and changes nothing else.
C11_swap_graphemes ==
    (op = "swap_graphemes" /\ is_valid(pre_lines, pre_ip)
        /\ Len(grapheme_ranges(pre_lines)) >= 2)
        => LET g == grapheme_ranges(pre_lines)
               k == RightOfPair(pre_lines, pre_ip)
           IN  /\ ~panicked
               /\ lines = Slice(pre_lines, 0, g[k-1][1])
                            \o Grapheme(pre_lines, k) \o Grapheme(pre_lines, k - 1)
                            \o Slice(pre_lines, g[k][2], len(pre_lines))
               /\ insertion_point = g[k][2]

\* swap_graphemes has exchanged two graphemes of different length in bytes,
\* from a cursor in the middle of the buffer
C11_witness ==
    /\ op = "swap_graphemes"
    /\ is_valid(pre_lines, pre_ip)
    /\ 0 < pre_ip
    /\ pre_ip < len(pre_lines)
    /\ Len(grapheme_ranges(pre_lines)) >= 3
    /\ lines # pre_lines
    /\ len(Grapheme(pre_lines, RightOfPair(pre_lines, pre_ip)))
           # len(Grapheme(pre_lines, RightOfPair(pre_lines, pre_ip) - 1))

\* C12: in a buffer of at most one grapheme swap_graphemes leaves the content
\* as it is and the cursor where its first move put it: right of the grapheme
\* from offset 0, left of it from the end.
C12_swap_graphemes_without_pair ==
    (op = "swap_graphemes" /\ is_valid(pre_lines, pre_ip)
        /\ Len(grapheme_ranges(pre_lines)) <= 1)
        => /\ ~panicked
           /\ lines = pre_lines
           /\ insertion_point = IF pre_ip = 0 THEN len(pre_lines) ELSE 0

\* swap_graphemes has returned on a buffer of one grapheme with the cursor
\* moved to the other side of it
C12_witness ==
    /\ op = "swap_graphemes"
    /\ is_valid(pre_lines, pre_ip)
    /\ Len(grapheme_ranges(pre_lines)) = 1
    /\ lines = pre_lines
    /\ insertion_point # pre_ip

\* the two word ranges swap_words computes from cursor p: that of the current
\* word, and that of the current word once the cursor has moved behind it
FirstRange(l, p) == current_word_range(l, p)
SecondRange(l, p) == current_word_range(l, word_right_index(l, p))

\* C13: when the two word ranges swap_words computes are identical (there is
\* no next word right of the current one), swap_words changes neither the
\* content nor the cursor.
C13_swap_words_without_next_word ==
    (op = "swap_words" /\ ~panicked /\ is_valid(pre_lines, pre_ip)
        /\ FirstRange(pre_lines, pre_ip) = SecondRange(pre_lines, pre_ip))
        => (lines = pre_lines /\ insertion_point = pre_ip)

\* C14 as stated: after swap_words has swapped, the cursor is at the start
\* of the second word range as it was before the swap.
C14_as_stated ==
    (op = "swap_words" /\ ~panicked /\ is_valid(pre_lines, pre_ip)
        /\ FirstRange(pre_lines, pre_ip) # SecondRange(pre_lines, pre_ip))
        => insertion_point = SecondRange(pre_lines, pre_ip)[1]

\* C14, amended: after swap_words has swapped, the cursor is at the start of
\* the first word range as it was before the swap.
C14_cursor_after_swap_words ==
    (op = "swap_words" /\ ~panicked /\ is_valid(pre_lines, pre_ip)
        /\ FirstRange(pre_lines, pre_ip) # SecondRange(pre_lines, pre_ip))
        => insertion_point = FirstRange(pre_lines, pre_ip)[1]

\* swap_words has exchanged two words, from a cursor inside the first of them
C14_witness ==
    /\ op = "swap_words"
    /\ ~panicked
    /\ is_valid(pre_lines, pre_ip)
    /\ FirstRange(pre_lines, pre_ip)[2] <= SecondRange(pre_lines, pre_ip)[1]
    /\ FirstRange(pre_lines, pre_ip)[1] < pre_ip
    /\ pre_ip < FirstRange(pre_lines, pre_ip)[2]
    /\ lines # pre_lines

\* l with the texts of the ranges r1 and r2 exchanged, r1 ending before r2
\* starts
Exchanged(l, r1, r2) ==
    Slice(l, 0, r1[1]) \o Slice(l, r2[1], r2[2]) \o Slice(l, r1[2], r2[1])
        \o Slice(l, r1[1], r1[2]) \o Slice(l, r2[2], len(l))

\* C15 as stated: when swap_words finds two different word ranges, the
\* content becomes the original with the texts of the two ranges exchanged,
\* everything else is preserved and len(content) is unchanged.
C15_as_stated ==
    (op = "swap_words" /\ ~panicked /\ is_valid(pre_lines, pre_ip)
        /\ FirstRange(pre_lines, pre_ip) # SecondRange(pre_lines, pre_ip))
        => /\ len(lines) = len(pre_lines)
           /\ lines = Exchanged(pre_lines, FirstRange(pre_lines, pre_ip),
                                SecondRange(pre_lines, pre_ip))

\* C15, amended: when swap_words finds two different word ranges of which the
\* first ends before the second starts, the content becomes the original with
\* the texts of the two ranges exchanged, the separator between them and the
\* text before the first and after the second are preserved; when the two
\* ranges overlap (no word follows the current one, but other text does) the
\* content is unchanged. len(content) is unchanged in both cases.
C15_swap_words_exchanges ==
    (op = "swap_words" /\ ~panicked /\ is_valid(pre_lines, pre_ip)
        /\ FirstRange(pre_lines, pre_ip) # SecondRange(pre_lines, pre_ip))
        => /\ len(lines) = len(pre_lines)
           /\ lines = IF FirstRange(pre_lines, pre_ip)[2]
                            <= SecondRange(pre_lines, pre_ip)[1]
                      THEN Exchanged(pre_lines, FirstRange(pre_lines, pre_ip),
                                     SecondRange(pre_lines, pre_ip))
                      ELSE pre_lines

\* swap_words has exchanged two words of different length in bytes
C15_witness ==
    /\ op = "swap_words"
    /\ ~panicked
    /\ is_valid(pre_lines, pre_ip)
    /\ FirstRange(pre_lines, pre_ip)[2] <= SecondRange(pre_lines, pre_ip)[1]
    /\ FirstRange(pre_lines, pre_ip)[2] - FirstRange(pre_lines, pre_ip)[1]
           # SecondRange(pre_lines, pre_ip)[2] - SecondRange(pre_lines, pre_ip)[1]
    /\ lines # pre_lines

\* the starts of the words of l that begin at or after offset p
WordStartsFrom(l, p) ==
    {word_segments(l)[k][1] : k \in 1..Len(word_segments(l))} \cap p..len(l)

\* the end of the grapheme of l that starts at the grapheme boundary t
GraphemeEnd(l, t) ==
    LET here == {k \in 1..Len(grapheme_ranges(l)) : grapheme_ranges(l)[k][1] = t}
    IN  IF here = {} THEN t ELSE grapheme_ranges(l)[Min(here)][2]

\* C16: capitalize_char never modifies the text left of the original cursor
\* and does nothing with the cursor at len(content); otherwise, from the
\* cursor, or from the start of the next word to its right when the
\* character right of the cursor is whitespace, it uppercases exactly the
\* grapheme there and puts the cursor behind it.
C16_capitalize_char ==
    (op = "capitalize_char" /\ ~panicked /\ is_valid(pre_lines, pre_ip))
        => /\ Slice(lines, 0, pre_ip) = Slice(pre_lines, 0, pre_ip)
           /\ pre_ip = len(pre_lines)
                  => (lines = pre_lines /\ insertion_point = pre_ip)
           /\ (pre_ip < len(pre_lines)
                   /\ (on_whitespace(pre_lines, pre_ip)
                           => WordStartsFrom(pre_lines, pre_ip) # {}))
                  => LET t == IF on_whitespace(pre_lines, pre_ip)
                              THEN Min(WordStartsFrom(pre_lines, pre_ip))
                              ELSE pre_ip
                         e == GraphemeEnd(pre_lines, t)
                         u == to_uppercase(Slice(pre_lines, t, e))
                     IN  /\ lines = Slice(pre_lines, 0, t) \o u
                                        \o Slice(pre_lines, e, len(pre_lines))
                         /\ insertion_point = t + len(u)

\* the text of current_word_range() in the case the call that has just
\* returned changes it to
Cased(l, p) ==
    IF op = "uppercase_word"
    THEN to_uppercase(Slice(l, FirstRange(l, p)[1], FirstRange(l, p)[2]))
    ELSE to_lowercase(Slice(l, FirstRange(l, p)[1], FirstRange(l, p)[2]))

\* C17: uppercase_word and lowercase_word replace exactly the text in
\* current_word_range(), as computed before the call, by its upper- or
\* lower-cased form, leave the rest of the content unchanged and leave the
\* cursor at the end of the transformed range.
C17_case_of_word ==
    (op \in {"uppercase_word", "lowercase_word"} /\ is_valid(pre_lines, pre_ip))
        => /\ ~panicked
           /\ lines = Slice(pre_lines, 0, FirstRange(pre_lines, pre_ip)[1])
                        \o Cased(pre_lines, pre_ip)
                        \o Slice(pre_lines, FirstRange(pre_lines, pre_ip)[2],
                                 len(pre_lines))
           /\ insertion_point = FirstRange(pre_lines, pre_ip)[1]
                                    + len(Cased(pre_lines, pre_ip))

\* C18: from any state set_buffer(text) leaves content = text and
\* insertion_point = len(text), and clear() leaves the state of a newly
\* created buffer: empty content, insertion_point 0.
C18_set_buffer_and_clear ==
    /\ op = "set_buffer"
           => (~panicked /\ lines = args[1] /\ insertion_point = len(args[1]))
    /\ op = "clear"
           => (~panicked /\ lines = <<>> /\ insertion_point = 0)

\* set_buffer has replaced a different content whose cursor was not at an
\* offset equal to the length of the new text
C18_witness ==
    /\ op = "set_buffer"
    /\ pre_lines # <<>>
    /\ pre_lines # lines
    /\ pre_ip # len(lines)
    /\ lines # <<>>

\* C19: insert_str(t) with the cursor at p leaves old[..p] + t + old[p..] and
\* insertion_point = p + len(t); insert_char(c) leaves old[..p] + c + old[p..]
\* and the cursor past c on a grapheme boundary; a buffer built from a string
\* holds that string with the cursor at its end.
C19_insertion ==
    /\ (op \in {"insert_str", "insert_char"} /\ is_char_boundary(pre_lines, pre_ip))
           => ~panicked
    /\ (op = "insert_str" /\ ~panicked)
           => /\ lines = Slice(pre_lines, 0, pre_ip) \o args[1]
                            \o Slice(pre_lines, pre_ip, len(pre_lines))
              /\ insertion_point = pre_ip + len(args[1])
    /\ (op = "insert_char" /\ ~panicked)
           => /\ lines = Slice(pre_lines, 0, pre_ip) \o <<args[1]>>
                            \o Slice(pre_lines, pre_ip, len(pre_lines))
              /\ insertion_point >= pre_ip + len_utf8(args[1])
              /\ is_valid(lines, insertion_point)
    /\ op = "from"
           => (lines = args[1] /\ insertion_point = len(args[1]))

\* insert_char has inserted a character of several bytes in the middle of a
\* buffer
C19_witness ==
    /\ op = "insert_char"
    /\ ~panicked
    /\ 0 < pre_ip
    /\ pre_ip < len(pre_lines)
    /\ len_utf8(args[1]) > 1
    /\ insertion_point = pre_ip + len_utf8(args[1])

\* the text the insertion on record has inserted
Inserted == IF op = "insert_char, delete_left_grapheme" THEN <<args[1]>> ELSE args[1]

\* the content the insertion on record has left
AfterInsert ==
    Slice(pre_lines, 0, pre_ip) \o Inserted \o Slice(pre_lines, pre_ip, len(pre_lines))

\* an insertion of one grapheme (by insert_str: of several bytes) at a cursor
\* on a grapheme boundary, followed at once by delete_left_grapheme
RoundTrip ==
    /\ op \in {"insert_char, delete_left_grapheme", "insert_str, delete_left_grapheme"}
    /\ is_valid(pre_lines, pre_ip)
    /\ Len(grapheme_indices(Inserted)) = 1
    /\ op = "insert_str, delete_left_grapheme" => len(Inserted) > 1

\* C20 as stated: inserting one grapheme at a cursor on a grapheme boundary
\* and then calling delete_left_grapheme gives back the content and the
\* cursor from before the insertion.
C20_as_stated ==
    RoundTrip => (~panicked /\ lines = pre_lines /\ insertion_point = pre_ip)

\* C20, amended: the round trip gives back the content and the cursor from
\* before the insertion when the inserted grapheme does not join a grapheme
\* cluster with the text before the cursor nor, for insert_char, with the
\* text after it.
C20_round_trip ==
    (/\ RoundTrip
     /\ is_valid(AfterInsert, pre_ip)
     /\ op = "insert_char, delete_left_grapheme"
            => is_valid(AfterInsert, pre_ip + len(Inserted)))
        => (~panicked /\ lines = pre_lines /\ insertion_point = pre_ip)

\* insert_str has inserted a grapheme of four bytes in the middle of a buffer
\* and delete_left_grapheme has removed it
C20_witness ==
    /\ RoundTrip
    /\ op = "insert_str, delete_left_grapheme"
    /\ len(Inserted) = 4
    /\ 0 < pre_ip
    /\ pre_ip < len(pre_lines)
    /\ lines = pre_lines
    /\ insertion_point = pre_ip

\* the match of the search that has just returned: the first occurrence in
\* the window of a rightward search, the last in that of a leftward search
Match == IF op \in RightSearches THEN Min(SearchMatches) ELSE Max(SearchMatches)

\* the offset just past the matched character
PastMatch == Match + len_utf8(args[1])

\* C21: with a match at offset m for the character c and the cursor at p,
\* delete_right_until_char removes exactly [p, m + len(c)) and
\* delete_right_before_char exactly [p, m), both leaving the cursor at p;
\* delete_left_until_char removes exactly [m, p) and puts the cursor at m;
\* delete_left_before_char removes exactly [m + len(c), p) and puts the
\* cursor at m + len(c).
C21_delete_to_match ==
    (op \in SearchDeletes /\ ~panicked /\ SearchMatches # {})
        => LET from == CASE op = "delete_right_until_char" -> pre_ip
                         [] op = "delete_right_before_char" -> pre_ip
                         [] op = "delete_left_until_char" -> Match
                         [] op = "delete_left_before_char" -> PastMatch
               to == CASE op = "delete_right_until_char" -> PastMatch
                       [] op = "delete_right_before_char" -> Match
                       [] op = "delete_left_until_char" -> pre_ip
                       [] op = "delete_left_before_char" -> pre_ip
           IN  /\ lines = Slice(pre_lines, 0, from)
                            \o Slice(pre_lines, to, len(pre_lines))
               /\ insertion_point = from

\* delete_right_until_char has removed text up to and including a matched
\* character of four bytes that was not next to the cursor
C21_witness ==
    /\ op = "delete_right_until_char"
    /\ ~panicked
    /\ SearchMatches # {}
    /\ len_utf8(args[1]) = 4
    /\ Match > pre_ip + 1
    /\ len(lines) = len(pre_lines) - (PastMatch - pre_ip)

\* the largest start of a grapheme of l that is left of offset m
GraphemeStartBefore(l, m) ==
    Max({grapheme_ranges(l)[k][1] : k \in 1..Len(grapheme_ranges(l))} \cap 0..(m - 1))

\* C22: find_char_right returns the offset m of the first occurrence of the
\* character right of the grapheme under the cursor; move_right_until puts
\* the cursor at m and move_right_before at the start of the grapheme
\* immediately before m; both return the new insertion_point and neither
\* moves the cursor left of where it was nor changes the content.
C22_search_right ==
    (op \in {"find_char_right", "move_right_until", "move_right_before"}
        /\ ~panicked /\ is_valid(pre_lines, pre_ip) /\ SearchMatches # {})
        => /\ lines = pre_lines
           /\ Match >= GraphemeEnd(pre_lines, pre_ip)
           /\ op = "find_char_right" => (ret = Match /\ insertion_point = pre_ip)
           /\ op = "move_right_until" => insertion_point = Match
           /\ op = "move_right_before"
                  => insertion_point = GraphemeStartBefore(pre_lines, Match)
           /\ op # "find_char_right"
                  => (ret = insertion_point /\ insertion_point >= pre_ip)

\* move_right_before has passed over the character under the cursor, which
\* is the searched one, and stopped one grapheme before its next occurrence
C22_witness ==
    /\ op = "move_right_before"
    /\ ~panicked
    /\ is_valid(pre_lines, pre_ip)
    /\ pre_ip \in Occurrences(pre_lines, args[1], 0, len(pre_lines))
    /\ SearchMatches # {}
    /\ pre_ip < insertion_point
    /\ insertion_point < Match

\* C23: find_char_left returns the offset m of the last occurrence of the
\* character strictly left of the cursor; move_left_until puts the cursor
\* at m and move_left_before at m plus the byte length of the character;
\* both return the new insertion_point and neither moves the cursor right of
\* where it was nor changes the content.
C23_search_left ==
    (op \in {"find_char_left", "move_left_until", "move_left_before"}
        /\ ~panicked /\ SearchMatches # {})
        => /\ lines = pre_lines
           /\ Match < pre_ip
           /\ op = "find_char_left" => (ret = Match /\ insertion_point = pre_ip)
           /\ op = "move_left_until" => insertion_point = Match
           /\ op = "move_left_before" => insertion_point = PastMatch
           /\ op # "find_char_left"
                  => (ret = insertion_point /\ insertion_point <= pre_ip)

\* move_left_before has stopped just past a matched character of four bytes
C23_witness ==
    /\ op = "move_left_before"
    /\ ~panicked
    /\ SearchMatches # {}
    /\ len_utf8(args[1]) = 4
    /\ insertion_point = Match + 4
    /\ insertion_point < pre_ip

\* C24: delete_word_left removes exactly [word_left_index(), cursor) and
\* puts the cursor at the old word_left_index(); delete_word_right removes
\* exactly [cursor, word_right_index()) and leaves the cursor offset as it
\* was; at offset 0, resp. at len(content), they change nothing.
C24_delete_word ==
    /\ (op = "delete_word_left" /\ ~panicked)
           => /\ lines = Slice(pre_lines, 0, word_left_index(pre_lines, pre_ip))
                            \o Slice(pre_lines, pre_ip, len(pre_lines))
              /\ insertion_point = word_left_index(pre_lines, pre_ip)
              /\ pre_ip = 0 => (lines = pre_lines /\ insertion_point = 0)
    /\ (op = "delete_word_right" /\ ~panicked)
           => /\ lines = Slice(pre_lines, 0, pre_ip)
                            \o Slice(pre_lines, word_right_index(pre_lines, pre_ip),
                                     len(pre_lines))
              /\ insertion_point = pre_ip
              /\ pre_ip = len(pre_lines) => lines = pre_lines

\* delete_word_left has removed a word and the whitespace between it and the
\* cursor, and kept the text right of the cursor
C24_witness ==
    /\ op = "delete_word_left"
    /\ ~panicked
    /\ insertion_point + 2 < pre_ip
    /\ pre_ip < len(pre_lines)
    /\ pre_lines[Idx(pre_lines, pre_ip)] = SPACE

\* C25: from a cursor on a grapheme boundary clear_to_line_end removes
\* exactly the text from the cursor to the end of the content of the current
\* line: the terminator of the line (LF or the whole CR LF), the other lines
\* and the text left of the cursor stay, the cursor offset is unchanged and
\* so is num_lines().
C25_clear_to_line_end ==
    (op = "clear_to_line_end" /\ is_valid(pre_lines, pre_ip))
        => /\ ~panicked
           /\ lines = Slice(pre_lines, 0, pre_ip)
                        \o Slice(pre_lines, ContentEnd(pre_lines, pre_ip),
                                 len(pre_lines))
           /\ insertion_point = pre_ip
           /\ num_lines(lines) = num_lines(pre_lines)

\* clear_to_line_end has removed text of a line that ends in CR LF and is
\* followed by another line
C25_witness ==
    /\ op = "clear_to_line_end"
    /\ is_valid(pre_lines, pre_ip)
    /\ lines # pre_lines
    /\ insertion_point \in Occurrences(lines, CR, 0, len(lines))
    /\ insertion_point + 1 \in Occurrences(lines, LF, 0, len(lines))
    /\ insertion_point + 2 < len(lines)

\* C28: with the cursor at a char boundary p, clear_to_end leaves
\* old[..p] and the cursor offset as it was, so that insertion_point =
\* len(content); clear_to_insertion_point leaves old[p..] and
\* insertion_point = 0, whatever lines the removed text belonged to.
C28_clear_to_end_and_to_cursor ==
    /\ (op = "clear_to_end" /\ is_char_boundary(pre_lines, pre_ip))
           => /\ ~panicked
              /\ lines = Slice(pre_lines, 0, pre_ip)
              /\ insertion_point = pre_ip
              /\ insertion_point = len(lines)
    /\ (op = "clear_to_insertion_point" /\ is_char_boundary(pre_lines, pre_ip))
           => /\ ~panicked
              /\ lines = Slice(pre_lines, pre_ip, len(pre_lines))
              /\ insertion_point = 0

\* clear_to_insertion_point has removed a whole first line and the start of
\* the second
C28_witness ==
    /\ op = "clear_to_insertion_point"
    /\ ~panicked
    /\ line(pre_lines, pre_ip) = 1
    /\ LineStart(pre_lines, pre_ip) < pre_ip
    /\ pre_ip < len(pre_lines)
    /\ len(lines) = len(pre_lines) - pre_ip

\* C26: line() is the number of LF strictly before the cursor and
\* num_lines() the number of LF in the content plus one;
\* is_cursor_at_first_line() is true exactly when line() = 0 and
\* is_cursor_at_last_line() exactly when line() = num_lines() - 1; in every
\* state with the cursor at a char boundary 0 <= line() < num_lines().
C26_line_numbers ==
    /\ (op = "line" /\ ~panicked)
           => ret = Cardinality(Occurrences(lines, LF, 0, insertion_point))
    /\ op = "num_lines"
           => ret = Cardinality(Occurrences(lines, LF, 0, len(lines))) + 1
    /\ (op = "is_cursor_at_first_line" /\ ~panicked)
           => (ret <=> line(lines, insertion_point) = 0)
    /\ (op = "is_cursor_at_last_line" /\ ~panicked)
           => (ret <=> line(lines, insertion_point) = num_lines(lines) - 1)
    /\ is_char_boundary(lines, insertion_point)
           => /\ 0 <= line(lines, insertion_point)
              /\ line(lines, insertion_point) < num_lines(lines)

\* is_cursor_at_last_line has returned true for a cursor at the end of a
\* content of several lines that ends in LF
C26_witness ==
    /\ op = "is_cursor_at_last_line"
    /\ ~panicked
    /\ ret = TRUE
    /\ insertion_point = len(lines)
    /\ line(lines, insertion_point) = 2
    /\ lines[Len(lines)] = LF

\* the words of l: the segments between word boundaries that hold an
\* alphanumeric character, as <<start, end>>
Words(l) == {word_segments(l)[k] : k \in 1..Len(word_segments(l))}

\* C27: from a cursor on a grapheme boundary word_right_index() returns the
\* offset just past the first word at or right of the cursor, or
\* len(content) when no word is left there; word_left_index() returns the
\* start of the last word left of the cursor, or 0 when there is none; and
\* word_left_index() <= insertion_point <= word_right_index().
C27_word_indices ==
    /\ (op = "word_right_index" /\ ~panicked /\ is_valid(lines, insertion_point))
           => LET ends == {w[2] : w \in {v \in Words(lines) : v[2] > insertion_point}}
              IN  /\ ret = IF ends = {} THEN len(lines) ELSE Min(ends)
                  /\ insertion_point <= ret
    /\ (op = "word_left_index" /\ ~panicked /\ is_valid(lines, insertion_point))
           => LET starts == {w[1] : w \in {v \in Words(lines) : v[1] < insertion_point}}
              IN  /\ ret = IF starts = {} THEN 0 ELSE Max(starts)
                  /\ ret <= insertion_point

\* word_right_index has returned len(content) for a cursor that has only
\* whitespace to its right and a word to its left
C27_witness ==
    /\ op = "word_right_index"
    /\ ~panicked
    /\ is_valid(lines, insertion_point)
    /\ ret = len(lines)
    /\ insertion_point < len(lines)
    /\ Words(lines) # {}
    /\ \A w \in Words(lines) : w[2] <= insertion_point

Rightwards == {"move_right", "move_word_right"}

Leftwards == {"move_left", "move_word_left"}

\* one call of a move from a cursor on a grapheme boundary: the content is
\* kept, the cursor stays on a grapheme boundary, and it moves strictly
\* towards its end of the content unless it is already there
MoveStep ==
    (op \in Rightwards \cup Leftwards /\ is_valid(pre_lines, pre_ip))
        => /\ ~panicked
           /\ lines = pre_lines
           /\ is_valid(lines, insertion_point)
           /\ op \in Rightwards
                  => IF pre_ip = len(pre_lines)
                     THEN insertion_point = pre_ip
                     ELSE pre_ip < insertion_point /\ insertion_point <= len(lines)
           /\ op \in Leftwards
                  => IF pre_ip = 0
                     THEN insertion_point = 0
                     ELSE 0 <= insertion_point /\ insertion_point < pre_ip

\* C29: from a cursor on a grapheme boundary, every call of a repeated
\* move_right or move_word_right strictly increases insertion_point unless
\* it is len(content), where the call does nothing, and the repetition gets
\* to len(content) and stays there; every call of a repeated move_left or
\* move_word_left strictly decreases it unless it is 0, and the repetition
\* gets to 0 and stays there; none of the four changes the content.
C29_repeated_moves ==
    /\ []MoveStep
    /\ \A o \in Rightwards :
           (op = o /\ is_valid(pre_lines, pre_ip))
               ~> [](op = o /\ insertion_point = len(lines) /\ lines = pre_lines)
    /\ \A o \in Leftwards :
           (op = o /\ is_valid(pre_lines, pre_ip))
               ~> [](op = o /\ insertion_point = 0 /\ lines = pre_lines)

\* move_word_left has moved from the start of a word over the whitespace
\* before it to the start of the word before
C29_witness ==
    /\ op = "move_word_left"
    /\ is_valid(pre_lines, pre_ip)
    /\ pre_ip \in {w[1] : w \in Words(pre_lines)}
    /\ insertion_point \in {w[1] : w \in Words(pre_lines)}
    /\ insertion_point < pre_ip

\* C30: from a cursor on a grapheme boundary left of len(content),
\* move_right followed by move_left puts insertion_point back where it was;
\* from one right of 0, move_left followed by move_right does.
C30_grapheme_move_round_trip ==
    /\ (op = "move_right, move_left" /\ is_valid(pre_lines, pre_ip)
            /\ pre_ip < len(pre_lines))
           => (~panicked /\ lines = pre_lines /\ insertion_point = pre_ip)
    /\ (op = "move_left, move_right" /\ is_valid(pre_lines, pre_ip)
            /\ pre_ip > 0)
           => (~panicked /\ lines = pre_lines /\ insertion_point = pre_ip)

\* move_left then move_right have gone over a grapheme of two code points
\* and come back
C30_witness ==
    /\ op = "move_left, move_right"
    /\ is_valid(pre_lines, pre_ip)
    /\ insertion_point = pre_ip
    /\ \E k \in 1..Len(grapheme_ranges(lines)) :
           /\ grapheme_ranges(lines)[k][2] = pre_ip
           /\ Len(Grapheme(lines, k)) = 2

\* number of LF before the offset p: the zero-based number of its line
LineNumber(l, p) == Cardinality(Occurrences(l, LF, 0, p))

\* C31: move_line_down from a cursor with an LF at or after it ends on the
\* line numbered one more, and move_line_up from a cursor with an LF before
\* it on the line numbered one less; the content is unchanged, and the
\* cursor ends at or before the LF, or the CR of the CR LF, that ends the
\* line it is on (or the end of the buffer).
C31_vertical_move_changes_line_by_one ==
    /\ (op = "move_line_down" /\ is_char_boundary(pre_lines, pre_ip)
            /\ Occurrences(pre_lines, LF, pre_ip, len(pre_lines)) # {})
           => /\ ~panicked
              /\ lines = pre_lines
              /\ LineNumber(lines, insertion_point) = LineNumber(pre_lines, pre_ip) + 1
              /\ insertion_point <= ContentEnd(lines, LineStart(lines, insertion_point))
    /\ (op = "move_line_up" /\ is_char_boundary(pre_lines, pre_ip)
            /\ Occurrences(pre_lines, LF, 0, pre_ip) # {})
           => /\ ~panicked
              /\ lines = pre_lines
              /\ LineNumber(lines, insertion_point) + 1 = LineNumber(pre_lines, pre_ip)
              /\ insertion_point <= ContentEnd(lines, LineStart(lines, insertion_point))

\* move_line_down has moved from a column that the next line does not have
\* to the end of the next line, which is not the last
C31_witness ==
    /\ op = "move_line_down"
    /\ is_valid(pre_lines, pre_ip)
    /\ LineNumber(lines, insertion_point) = LineNumber(pre_lines, pre_ip) + 1
    /\ Column(pre_lines, pre_ip) > Column(lines, insertion_point)
    /\ insertion_point = ContentEnd(lines, LineStart(lines, insertion_point))
    /\ insertion_point < len(lines)

\* start of the line after the one the cursor p is on, which is not the last
NextLineStart(l, p) == Min(Occurrences(l, LF, p, len(l))) + 1

\* number of graphemes of the content, without its LF or CR LF, of the line
\* that starts at start
ContentGraphemes(l, start) ==
    Len(grapheme_indices(Slice(l, start, ContentEnd(l, start))))

\* move_line_down then move_line_up, from a cursor on a grapheme boundary
\* of a line that is not the last
DownThenUp ==
    /\ op = "move_line_down, move_line_up"
    /\ is_valid(pre_lines, pre_ip)
    /\ Occurrences(pre_lines, LF, pre_ip, len(pre_lines)) # {}

\* C32: from a cursor on a grapheme boundary at grapheme column col of a
\* line that is not the last, with at least col graphemes in the content of
\* the next line, move_line_down followed by move_line_up leaves the content
\* as it was and puts insertion_point back where it was.
C32_down_then_up ==
    (DownThenUp
        /\ Column(pre_lines, pre_ip)
              <= ContentGraphemes(pre_lines, NextLineStart(pre_lines, pre_ip)))
        => (~panicked /\ lines = pre_lines /\ insertion_point = pre_ip)

\* the round trip has been made from the end of the content of a line that
\* is not empty and ends in CR LF
C32_witness ==
    /\ DownThenUp
    /\ Column(pre_lines, pre_ip) > 0
    /\ pre_ip = ContentEnd(pre_lines, LineStart(pre_lines, pre_ip))
    /\ ContentEnd(pre_lines, LineStart(pre_lines, pre_ip)) + 2
          = NextLineStart(pre_lines, pre_ip)
    /\ insertion_point = pre_ip

\* a search move made twice in a row, the first time from a cursor on a
\* grapheme boundary
MovedTwice(name) ==
    /\ op = CASE name = "move_right_until" -> "move_right_until, move_right_until"
              [] name = "move_right_before" -> "move_right_before, move_right_before"
              [] name = "move_left_until" -> "move_left_until, move_left_until"
              [] name = "move_left_before" -> "move_left_before, move_left_before"
    /\ is_valid(pre_lines, pre_ip)

\* the offsets of the searched character in the window of the second of two
\* rightward, resp. leftward, search moves: the first leaves the cursor at
\* the offset it returns
RightMatchesAgain ==
    LET w == RightWindow(lines, ret, args[2])
    IN  Occurrences(lines, args[1], w[1], w[2])

LeftMatchesAgain ==
    LET w == LeftWindow(lines, ret, args[2])
    IN  Occurrences(lines, args[1], w[1], w[2])

\* the second move_left_before leaves the cursor where the first put it
C33_move_left_before_idempotent ==
    MovedTwice("move_left_before")
        => (~panicked /\ lines = pre_lines /\ insertion_point = ret)

\* the second move_right_until and move_left_until go on to the nearest
\* occurrence in their window, which is further in their direction than the
\* first went, when there is one, and stay otherwise
C33_until_advances ==
    /\ MovedTwice("move_right_until")
           => /\ ~panicked
              /\ lines = pre_lines
              /\ IF RightMatchesAgain = {} THEN insertion_point = ret
                 ELSE insertion_point = Min(RightMatchesAgain) /\ insertion_point > ret
    /\ MovedTwice("move_left_until")
           => /\ ~panicked
              /\ lines = pre_lines
              /\ IF LeftMatchesAgain = {} THEN insertion_point = ret
                 ELSE insertion_point = Max(LeftMatchesAgain) /\ insertion_point < ret

\* C33: a second move_right_before or move_left_before with the same
\* arguments leaves insertion_point where the first call put it; a second
\* move_right_until or move_left_until goes on to the next occurrence further
\* in its direction when its window has one.
C33_as_stated ==
    /\ MovedTwice("move_right_before")
           => (~panicked /\ lines = pre_lines /\ insertion_point = ret)
    /\ C33_move_left_before_idempotent
    /\ C33_until_advances

\* what the line functions give for a cursor p on a grapheme boundary of l:
\* the range of the current line holds the cursor and the line's end, the
\* text from the cursor to the line's end has no LF, and the range has at
\* most one LF, as its last byte
LineBounds(l, p) ==
    LET range == current_line_range(l, p)
        end == find_current_line_end(l, p)
    IN  /\ range[1] <= p
        /\ p <= end
        /\ end <= range[2]
        /\ range[2] <= len(l)
        /\ Occurrences(l, LF, p, end) = {}
        /\ Occurrences(l, LF, range[1], range[2]) \subseteq {range[2] - 1}

\* C34: in every state whose cursor is on a grapheme boundary,
\* current_line_range().start <= insertion_point <= find_current_line_end()
\* <= current_line_range().end <= len(content), there is no LF from the
\* cursor to find_current_line_end(), and current_line_range() holds at most
\* one LF, as its last byte; find_current_line_end and current_line_range
\* return these values; and from such a state move_to_line_start,
\* move_to_line_end and clear_to_line_end do not panic and leave the cursor
\* on the line it was on: the moves between its start and the end of its
\* content, clear_to_line_end where it was, with as many LF in the content
\* as before.
C34_current_line_bounds ==
    /\ is_valid(lines, insertion_point) => LineBounds(lines, insertion_point)
    /\ (op = "find_current_line_end" /\ is_valid(pre_lines, pre_ip))
           => (~panicked /\ ret = find_current_line_end(lines, insertion_point))
    /\ (op = "current_line_range" /\ is_valid(pre_lines, pre_ip))
           => (~panicked /\ ret = current_line_range(lines, insertion_point))
    /\ (op \in {"move_to_line_start", "move_to_line_end", "clear_to_line_end"}
            /\ is_valid(pre_lines, pre_ip))
           => /\ ~panicked
              /\ LineNumber(lines, insertion_point) = LineNumber(pre_lines, pre_ip)
              /\ LineStart(lines, insertion_point) = LineStart(pre_lines, pre_ip)
              /\ op = "move_to_line_start"
                     => /\ lines = pre_lines
                        /\ insertion_point = LineStart(pre_lines, pre_ip)
              /\ op = "move_to_line_end"
                     => /\ lines = pre_lines
                        /\ insertion_point
                              = ContentEnd(pre_lines, LineStart(pre_lines, pre_ip))
                        /\ pre_ip <= insertion_point
              /\ op = "clear_to_line_end"
                     => /\ insertion_point = pre_ip
                        /\ Cardinality(Occurrences(lines, LF, 0, len(lines)))
                              = Cardinality(Occurrences(pre_lines, LF, 0, len(pre_lines)))

\* move_to_line_end has moved the cursor to the CR of the CR LF that ends a
\* line which is not the first
C34_witness ==
    /\ op = "move_to_line_end"
    /\ is_valid(pre_lines, pre_ip)
    /\ LineStart(pre_lines, pre_ip) > 0
    /\ pre_ip < insertion_point
    /\ insertion_point \in Occurrences(lines, CR, 0, len(lines))
    /\ insertion_point + 1 \in Occurrences(lines, LF, 0, len(lines))
    /\ LineBounds(lines, insertion_point)

====
